---- MODULE Spec2Model ----
(***************************************************************************)
(* gclient (trunk/gclient/gclient.py): the sync engine (UpdateAll,         *)
(* UpdateToURL, RunSVN), the resolver (GetAllDeps, GetDefaultSolutionDeps) *)
(* and the pass-through commands (RunSVNCommandForClientModules).          *)
(*                                                                         *)
(* A Python string is modelled as a sequence of tokens, so that split,     *)
(* concatenation and replace are computed and not assumed: the URL         *)
(* "http://a/s1@1" is <<"http://a", "/s1", "@", "1">>.                     *)
(***************************************************************************)
EXTENDS Integers, Sequences, FiniteSets, TLC

VARIABLES
  client,      \* the evaluated .gclient file: [solutions |-> Seq(solution)]
  files,       \* the DEPS manifests in the repositories, by module name
  platform,    \* sys.platform
  options,     \* the Options object: force, relocate, revision, verbose
  wc,          \* the working copies under root_dir, by relpath
  journal,     \* the .gclient_entries file: [present, entries]
  command,     \* the subcommand of the running invocation
  pc,          \* position of the running invocation
  idx,         \* loop index of the running loop
  entries,     \* UpdateAll / RunSVNCommandForClientModules: entries dict
  result,      \* UpdateAll: result
  deps,        \* GetAllDeps: deps dict (then UpdateAll: deps)
  order,       \* UpdateAll: deps_to_update (sorted keys of deps)
  trace,       \* history: what the running invocation did, in order
  outcome,     \* how the running invocation ended
  runs,        \* number of invocations started
  prev         \* history: the plan and outcome of the previous invocation

vars == <<client, files, platform, options, wc, journal, command, pc, idx,
          entries, result, deps, order, trace, outcome, runs, prev>>

----------------------------------------------------------------------------
(* Bounds *)

MaxSolutions == 2
MaxRuns == 2

----------------------------------------------------------------------------
(* Strings *)

None == <<"<None>">>
Str(x) == <<x>>

\* s.split("@")
RECURSIVE Split(_)
Split(s) ==
  IF \A i \in 1..Len(s) : s[i] # "@"
  THEN <<s>>
  ELSE LET i == CHOOSE k \in 1..Len(s) :
                  s[k] = "@" /\ \A j \in 1..(k - 1) : s[j] # "@"
       IN  <<SubSeq(s, 1, i - 1)>> \o Split(SubSeq(s, i + 1, Len(s)))

\* s.find("@") == -1
HasNoAt(s) == \A i \in 1..Len(s) : s[i] # "@"

IsPrefix(p, s) == Len(p) <= Len(s) /\ SubSeq(s, 1, Len(p)) = p

\* (mutant) the string is left as it is
ReplaceNothing(s, old, new) == s

\* s.replace(old, new), old non-empty
RECURSIVE Replace(_, _, _)
Replace(s, old, new) ==
  IF s = <<>> THEN <<>>
  ELSE IF IsPrefix(old, s)
       THEN new \o Replace(SubSeq(s, Len(old) + 1, Len(s)), old, new)
       ELSE <<Head(s)>> \o Replace(Tail(s), old, new)

\* list.sort() on relpaths: the paths of the model in lexicographic order
SortedPaths == <<"a", "a/b", "m", "s1", "s2">>
Paths == {SortedPaths[i] : i \in 1..Len(SortedPaths)}

RECURSIVE SortFrom(_, _)
SortFrom(keys, i) ==
  IF i > Len(SortedPaths) THEN <<>>
  ELSE (IF SortedPaths[i] \in keys THEN <<SortedPaths[i]>> ELSE <<>>)
       \o SortFrom(keys, i + 1)

\* (mutant) the keys in descending order
SortDescending(keys) ==
  [i \in 1..Len(SortFrom(keys, 1)) |->
     SortFrom(keys, 1)[Len(SortFrom(keys, 1)) + 1 - i]]

Sort(keys) == SortFrom(keys, 1)

----------------------------------------------------------------------------
(* The Subversion side: repositories and the effect of svn on a working    *)
(* copy.  "http://b" is a mirror of "http://a" (same UUID); "http://c" is  *)
(* another repository.                                                     *)

Roots == {"http://a", "http://b", "http://c"}
RepoUUID(root) == IF root \in {"http://a", "http://b"} THEN <<"uuid-1">>
                  ELSE <<"uuid-2">>
HeadRev == <<"9">>

NoInfo == [URL |-> None, Revision |-> None, Root |-> None, UUID |-> None]
Absent == [exists |-> FALSE, git |-> FALSE, info |-> NoInfo]

\* 'svn info <url>[@rev]' as parsed by CaptureSVNInfo
InfoOfURL(svnurl) ==
  LET comps == Split(svnurl)
  IN  IF comps[1] # <<>> /\ Head(comps[1]) \in Roots
      THEN [URL      |-> comps[1],
            Revision |-> IF Len(comps) > 1 THEN comps[2] ELSE HeadRev,
            Root     |-> <<Head(comps[1])>>,
            UUID     |-> RepoUUID(Head(comps[1]))]
      ELSE NoInfo

\* The state of a working copy after the svn command c (c[1] = "svn") exits 0.
SvnEffect(w, c) ==
  LET verb   == c[2]
      hasRev == Len(c) >= 4 /\ c[3] = <<"-r">>
      rev    == IF hasRev THEN c[4] ELSE HeadRev
  IN  IF verb = <<"checkout">>
      THEN [exists |-> TRUE, git |-> FALSE, info |-> InfoOfURL(c[3])]
      ELSE IF verb = <<"update">>
      THEN [w EXCEPT !.info.Revision = rev]
      ELSE IF verb = <<"switch">> /\ Len(c) >= 3 /\ c[3] = <<"--relocate">>
      THEN [w EXCEPT !.info.URL = Replace(w.info.URL, c[4], c[5]),
                     !.info.Root = c[5]]
      ELSE IF verb = <<"switch">>
      THEN [w EXCEPT !.info.URL = IF hasRev THEN c[5] ELSE c[3],
                     !.info.Revision = rev]
      ELSE w  \* status, diff, revert leave the metadata alone

----------------------------------------------------------------------------
(* Events of the history variable trace. *)

Event(k, p, c, rv) == [k |-> k, p |-> p, c |-> c, rv |-> rv]

\* update_to_url is called for relpath with url; w is the working copy then
CallEvent(relpath, url, w) ==
  [k |-> "call", p |-> relpath, c |-> <<url>>, rv |-> 0, w |-> w]

IsSvn(e) == e.k = "svn"
IsRelocate(e) == IsSvn(e) /\ Len(e.c) >= 3 /\ e.c[2] = <<"switch">>
                 /\ e.c[3] = <<"--relocate">>
IsMutating(e) == IsSvn(e)
                 /\ e.c[2] \in {<<"checkout">>, <<"update">>, <<"switch">>}

----------------------------------------------------------------------------
(* SVN utils *)

\* (mutant) the exit code of svn is not looked at
RunSVNNeverRaises(rv) == FALSE

\* RunSVN: echo the command, run it, raise Error on a nonzero exit code.
RunSVNRaises(rv) == rv # 0

\* (mutant) a command that exits nonzero is run a second time
RunSVNRetries(args, in_directory, rv) ==
  LET c == << <<"svn">> >> \o args
      once == <<Event("echo", in_directory, c, 0),
                Event("svn", in_directory, c, rv)>>
  IN  [events |-> IF rv # 0 THEN once \o once ELSE once,
       raised |-> RunSVNRaises(rv),
       rv     |-> rv,
       c      |-> c]

RunSVN(args, in_directory, rv) ==
  LET c == << <<"svn">> >> \o args
  IN  [events |-> <<Event("echo", in_directory, c, 0),
                    Event("svn", in_directory, c, rv)>>,
       raised |-> RunSVNRaises(rv),
       rv     |-> rv,
       c      |-> c]

Truthy(x) == x # None /\ x # <<>>

\* (mutant) the last component of the split URL is compared, not the first
CanUpdateLastComponent(comps, from_url) == comps[Len(comps)] = from_url

\* UpdateToURL: "if comps[0] == from_url: can_update = True"
CanUpdate(comps, from_url) == comps[1] = from_url

\* (mutant) the URL component is compared with the revision
RevisionMatchesWrongIndex(opts, comps, from_info) ==
  ~opts.force /\ Len(comps) > 1 /\ comps[1] = from_info.Revision

\* UpdateToURL: the working copy is at the revision asked for, nothing to do
RevisionMatches(opts, comps, from_info) ==
  ~opts.force /\ Len(comps) > 1 /\ comps[2] = from_info.Revision

\* (mutant) a .git directory is not looked for
GitIgnored(w) == FALSE

\* UpdateToURL: "if path_exists(git_path)"
FoundGit(w) == w.git

\* (mutant) svn info is taken to have given a URL
URLAssumed(from_info) == FALSE

\* UpdateToURL: "if from_url is None"
NoURL(from_info) == from_info.URL = None

\* (mutant) the repository UUIDs are not compared
AnyRepository(from_info, to_info) == TRUE

\* UpdateToURL: "from_repository_uuid != to_repository_uuid" is false
SameRepository(from_info, to_info) == from_info.UUID = to_info.UUID

\* UpdateToURL.  w is the working copy at relpath, rvRelocate and rv are the
\* exit codes svn gives to the relocate and to the final command (if run).
\* ret: "None" (bare return), "rv" (the value of run_svn, in code) or "Error".
UpdateToURL(relpath, svnurl, w, opts, args, rvRelocate, rv) ==
  LET comps   == Split(svnurl)
      revArgs == IF Len(comps) > 1 THEN << <<"-r">>, comps[2] >> ELSE <<>>
      Return(evs, w1, why) ==
        [ret |-> "None", code |-> 0, ops |-> evs, w |-> w1, log |-> why]
      Raise(evs, w1, why) ==
        [ret |-> "Error", code |-> 0, ops |-> evs, w |-> w1, log |-> why]
      Run(evs, w1, c, run_dir) ==
        LET r == RunSVN(c \o args, run_dir, rv)
        IN  IF r.raised
            THEN Raise(evs \o r.events, w1, "failed to run command")
            ELSE [ret |-> "rv", code |-> r.rv, ops |-> evs \o r.events,
                  w   |-> IF rv = 0 THEN SvnEffect(w1, r.c) ELSE w1,
                  log |-> "ran"]
  IN
  IF FoundGit(w) THEN Return(<<>>, w, "found .git directory; skipping")
  ELSE IF ~w.exists
  THEN Run(<<>>, w, << <<"checkout">>, svnurl, Str(relpath) >>, ".")
  ELSE
    LET from_info == w.info
        info1     == <<Event("info", relpath, <<Str(relpath)>>, 0)>>
    IN
    IF NoURL(from_info)
    THEN Raise(info1, w, "Couldn't get URL for relative path")
    ELSE
      LET differs   == comps[1] # from_info.URL
          to_info   == InfoOfURL(svnurl)
          info2     == IF differs
                       THEN info1 \o <<Event("info", relpath, <<svnurl>>, 0)>>
                       ELSE info1
          diffRoot  == differs /\ Truthy(from_info.Root)
                       /\ from_info.Root # to_info.Root
          reloc     == RunSVN(<< <<"switch">>, <<"--relocate">>,
                                 from_info.Root, to_info.Root, Str(relpath) >>,
                              ".", rvRelocate)
      IN
      IF diffRoot /\ ~SameRepository(from_info, to_info)
      THEN Return(info2, w, "can not relocate to URL with different UUID")
      ELSE IF diffRoot /\ ~opts.relocate
      THEN Return(info2, w, "use the --relocate option to switch")
      ELSE IF diffRoot /\ reloc.raised
      THEN Raise(info2 \o reloc.events, w, "failed to run command")
      ELSE
        LET evs      == IF diffRoot THEN info2 \o reloc.events ELSE info2
            w1       == IF diffRoot /\ rvRelocate = 0
                        THEN SvnEffect(w, reloc.c) ELSE w
            from_url == IF diffRoot
                        THEN Replace(from_info.URL, from_info.Root, to_info.Root)
                        ELSE from_info.URL
        IN
        IF CanUpdate(comps, from_url)
        THEN IF RevisionMatches(opts, comps, from_info)
             THEN Return(evs, w1, "at revision")
             ELSE Run(evs, w1, << <<"update">> >> \o revArgs, relpath)
        ELSE Run(evs, w1,
                 << <<"switch">> >> \o revArgs \o <<comps[1], Str(relpath)>>,
                 ".")

----------------------------------------------------------------------------
(* Dicts and dependency values.  A DEPS value is a string                  *)
(* ([kind |-> "str"]), a From(module_name) object ([kind |-> "from"]) or,  *)
(* in custom_deps only, None ([kind |-> "none"]).                          *)

EmptyMap == [k \in {} |-> None]
Put(f, k, v) == [x \in DOMAIN f \cup {k} |-> IF x = k THEN v ELSE f[x]]
\* dict.update
Update(f, g) == [x \in DOMAIN f \cup DOMAIN g |->
                   IF x \in DOMAIN g THEN g[x] ELSE f[x]]

S(v) == [kind |-> "str", v |-> v]
From(module_name) == [kind |-> "from", v |-> Str(module_name)]
NoneVal == [kind |-> "none", v |-> None]

\* a != b on DEPS values: FromImpl defines no __eq__, so two From objects
\* made by two evaluations of a manifest are never equal.
ValNeq(a, b) == a.kind # "str" \/ b.kind # "str" \/ a.v # b.v

\* urlparse.urlparse(url)[0]: the scheme
HasScheme(url) == url # <<>> /\ Head(url) \in Roots
\* urlparse.urlparse(url)[2][0] == "/" for a URL without scheme
SlashTokens == {"/s1", "/s2", "/liba", "/libb", "/m", "/old", "/trunk"}
StartsWithSlash(url) == url # <<>> /\ Head(url) \in SlashTokens

----------------------------------------------------------------------------
(* gclient ops: the resolver *)

NoManifest == [present |-> FALSE, binds |-> {}, deps |-> EmptyMap,
               deps_os |-> EmptyMap]

\* (mutant) sys.platform itself is the deps_os key
DepsOsKeyIsPlatform(plat) == plat

\* the deps_os key for sys.platform
DepsOsKey(plat) ==
  IF plat \in {"win32", "win"} THEN "win"
  ELSE IF plat \in {"darwin", "mac"} THEN "mac"
  ELSE "unix"

\* (mutant) a DEPS file that cannot be read is passed over without a warning
GetDepsWithoutWarning(fs, w, solution_name, plat) ==
  LET f == IF solution_name \in DOMAIN fs THEN fs[solution_name] ELSE NoManifest
      readable == f.present /\ solution_name \in DOMAIN w /\ w[solution_name].exists
      base == IF "deps" \in f.binds THEN f.deps ELSE EmptyMap
      os   == IF "deps_os" \in f.binds THEN f.deps_os ELSE EmptyMap
      key  == DepsOsKey(plat)
  IN  [deps |-> IF ~readable THEN EmptyMap
                ELSE Update(base, IF key \in DOMAIN os THEN os[key] ELSE EmptyMap),
       warned |-> FALSE]

\* GetDefaultSolutionDeps: the DEPS file root_dir/solution_name/DEPS can be
\* read only if that directory is there.
GetDefaultSolutionDeps(fs, w, solution_name, plat) ==
  LET f == IF solution_name \in DOMAIN fs THEN fs[solution_name] ELSE NoManifest
      readable == f.present /\ solution_name \in DOMAIN w /\ w[solution_name].exists
      base == IF "deps" \in f.binds THEN f.deps ELSE EmptyMap
      os   == IF "deps_os" \in f.binds THEN f.deps_os ELSE EmptyMap
      key  == DepsOsKey(plat)
  IN  IF ~readable
      THEN [deps |-> EmptyMap, warned |-> TRUE]
      ELSE [deps |-> Update(base, IF key \in DOMAIN os THEN os[key] ELSE EmptyMap),
            warned |-> FALSE]

\* (mutant) a dependency is not compared with the one already in deps
NoDepsConflict(ds, d, url) == FALSE

\* GetAllDeps: "if d in deps and deps[d] != url"
ConflictsWithDeps(ds, d, url) == d \in DOMAIN ds /\ ValNeq(ds[d], url)

\* (mutant) a dependency is not compared with the solution of its name
NoSolutionConflict(solution_urls, d, url) == FALSE

\* GetAllDeps: "if d in solution_urls and solution_urls[d] != url"
ConflictsWithSolution(solution_urls, d, url) ==
  d \in DOMAIN solution_urls /\ ValNeq(S(solution_urls[d]), url)

\* (mutant) any path of a URL without scheme is accepted
AnyRelativePath(url) == FALSE

\* GetAllDeps: "if path[0] != '/': raise Error(...)"
BadRelativePath(url) == ~StartsWithSlash(url)

\* (mutant) the URL of the solution is prepended, not the repository root
ExpandUnderURL(info, url) == info.URL \o url

\* GetAllDeps: "url = info['Repository Root'] + url"
ExpandRelative(info, url) == info.Root \o url

\* (mutant) a custom_deps value of None excludes nothing
CustomExcludesNothing(solution, d) == FALSE

\* GetAllDeps: "url = solution['custom_deps'][d]; if url is None: continue"
CustomExcludes(solution, d) ==
  d \in DOMAIN solution.custom_deps /\ solution.custom_deps[d].kind = "none"

\* (mutant) a From() reference to a solution is kept like any other
FromSolutionKept(url, solution_urls) == FALSE

\* GetAllDeps: "if url.module_name in solution_urls"
FromSolution(url, solution_urls) == url.v[1] \in DOMAIN solution_urls

\* GetAllDeps, one iteration of the inner loop "for d in solution_deps".
\* st = [deps, err, events]
VisitDep(solution, solution_deps, solution_urls, d, st) ==
  LET custom == d \in DOMAIN solution.custom_deps
      url0   == IF custom THEN solution.custom_deps[d] ELSE solution_deps[d]
      isFrom == ~custom /\ url0.kind # "str"
      isRel  == ~custom /\ url0.kind = "str" /\ ~HasScheme(url0.v)
      info   == InfoOfURL(solution.url)
      url    == IF isRel THEN S(ExpandRelative(info, url0.v)) ELSE url0
      evs    == IF isRel
                THEN st.events \o <<Event("info", solution.name, <<solution.url>>, 0)>>
                ELSE st.events
  IN
  IF st.err # "" THEN st
  ELSE IF CustomExcludes(solution, d) THEN st
  ELSE IF isFrom /\ FromSolution(url0, solution_urls) THEN st
  ELSE IF isFrom /\ d \in DOMAIN st.deps /\ st.deps[d].kind # "str"
          /\ url0.v = st.deps[d].v THEN st
  ELSE IF isRel /\ BadRelativePath(url0.v)
  THEN [st EXCEPT !.err = "relative DEPS entry must begin with a slash"]
  ELSE IF ConflictsWithDeps(st.deps, d, url)
  THEN [st EXCEPT !.err = "solutions have conflicting versions of dependency",
                  !.events = evs]
  ELSE IF ConflictsWithSolution(solution_urls, d, url)
  THEN [st EXCEPT !.err = "dependency conflicts with specified solution",
                  !.events = evs]
  ELSE [deps |-> Put(st.deps, d, url), err |-> "", events |-> evs]

\* (mutant) the loop ends ("break") at the first entry that adds nothing
RECURSIVE VisitDepsBreak(_, _, _, _, _)
VisitDepsBreak(solution, solution_deps, solution_urls, ks, st) ==
  IF ks = <<>> THEN st
  ELSE IF VisitDep(solution, solution_deps, solution_urls, Head(ks), st) = st
  THEN st
  ELSE VisitDepsBreak(solution, solution_deps, solution_urls, Tail(ks),
                      VisitDep(solution, solution_deps, solution_urls, Head(ks), st))

\* the inner loop over solution_deps in the iteration order ks
RECURSIVE VisitDeps(_, _, _, _, _)
VisitDeps(solution, solution_deps, solution_urls, ks, st) ==
  IF ks = <<>> THEN st
  ELSE VisitDeps(solution, solution_deps, solution_urls, Tail(ks),
                 VisitDep(solution, solution_deps, solution_urls, Head(ks), st))

\* the iteration orders a dict with the keys K can have
Orders(K) == {o \in [1..Cardinality(K) -> K] : \A k \in K : \E i \in DOMAIN o : o[i] = k}

----------------------------------------------------------------------------
(* The workspaces, repositories and working trees an invocation starts from *)

U(root, path) == <<root, path>>
AtRev(url, rev) == url \o <<"@", rev>>
Map1(k, v) == EmptyMap @@ (k :> v)

Manifest(deps_, deps_os_) ==
  [present |-> TRUE, binds |-> {"deps", "deps_os"}, deps |-> deps_,
   deps_os |-> deps_os_]

\* a solution of the .gclient file together with the DEPS file of its module
Package(name, url, custom_deps, manifest) ==
  [sol |-> [name |-> name, url |-> url, custom_deps |-> custom_deps],
   manifest |-> manifest]

Packages ==
  { Package("s1", U("http://a", "/s1"), EmptyMap, NoManifest),
    Package("s1", AtRev(U("http://a", "/s1"), "1"),
            ("a" :> NoneVal) @@ ("m" :> S(AtRev(U("http://a", "/m"), "1"))),
            Manifest(("a" :> S(AtRev(U("http://a", "/liba"), "1")))
                     @@ ("a/b" :> S(<<"/libb">>)), EmptyMap)),
    Package("s1", U("http://a", "/s1"), EmptyMap,
            Manifest(("a" :> From("m"))
                     @@ ("m" :> S(AtRev(U("http://a", "/m"), "1"))), EmptyMap)),
    Package("s2", U("http://a", "/s2"), EmptyMap,
            Manifest(("a/b" :> S(<<"libb">>)), EmptyMap)),
    Package("s2", U("http://a", "/s2"), EmptyMap,
            Manifest(("a" :> From("m"))
                     @@ ("a/b" :> S(U("http://a", "/libb")))
                     @@ ("m" :> S(AtRev(U("http://a", "/m"), "1"))), EmptyMap)),
    Package("s2", AtRev(U("http://a", "/s2"), "1"),
            Map1("a", S(AtRev(U("http://a", "/liba"), "1"))),
            Manifest(("s1" :> S(U("http://a", "/s1")))
                     @@ ("a" :> S(AtRev(U("http://c", "/liba"), "1")))
                     @@ ("a/b" :> S(U("http://c", "/libb"))),
                     EmptyMap)) }

SolutionLists == UNION {[1..n -> Packages] : n \in 0..MaxSolutions}

\* the DEPS file of each module: those of the solutions, and that of "m"
FilesOf(pkgs) ==
  [n \in {pkgs[i].sol.name : i \in DOMAIN pkgs} \cup {"m"} |->
     IF \E i \in DOMAIN pkgs : pkgs[i].sol.name = n
     THEN pkgs[CHOOSE i \in DOMAIN pkgs :
                 pkgs[i].sol.name = n
                 /\ \A j \in DOMAIN pkgs : pkgs[j].sol.name = n => i <= j].manifest
     ELSE Manifest(("a" :> S(AtRev(U("http://a", "/liba"), "2"))), EmptyMap)]

WorkingCopy(url, rev) ==
  [exists |-> TRUE, git |-> FALSE,
   info |-> [URL |-> url, Revision |-> <<rev>>, Root |-> <<Head(url)>>,
             UUID |-> RepoUUID(Head(url))]]

Tree(f) == [p \in Paths |-> IF p \in DOMAIN f THEN f[p] ELSE Absent]

Trees ==
  { \* nothing checked out yet
    Tree(EmptyMap),
    \* checked out from the mirror http://b
    Tree(("s1" :> WorkingCopy(U("http://b", "/s1"), "1"))
         @@ ("a" :> WorkingCopy(U("http://b", "/liba"), "1"))),
    \* another branch, another repository, a directory taken over by git
    Tree(("s1" :> WorkingCopy(U("http://a", "/old"), "1"))
         @@ ("s2" :> WorkingCopy(U("http://c", "/s2"), "1"))
         @@ ("a" :> [exists |-> TRUE, git |-> TRUE, info |-> NoInfo])),
    \* up to date, and a directory that is no working copy
    Tree(("s1" :> WorkingCopy(U("http://a", "/s1"), "1"))
         @@ ("a/b" :> [exists |-> TRUE, git |-> FALSE, info |-> NoInfo])) }

Revisions == {None, <<"2">>, <<"s1", "@", "2">>}
Platforms == {"linux2"}
ExitCodes == {0, 1, 3}
Commands == {"sync", "status", "diff", "revert"}

Running == [status |-> "running", value |-> 0, err |-> ""]
\* (mutant) where the invocation would return, an Error is raised
RaisedAtReturn(v) == [status |-> "raised", value |-> 0, err |-> "Error"]
Returned(v) == [status |-> "returned", value |-> v, err |-> ""]
Raised(e) == [status |-> "raised", value |-> 0, err |-> e]

NoJournal == [present |-> FALSE, entries |-> {}]

NoRun == [command |-> "", outcome |-> Running, deps |-> EmptyMap,
          calls |-> <<>>, orphans |-> {}, journal |-> NoJournal]

Init ==
  /\ \E pkgs \in SolutionLists :
       /\ client = [solutions |-> [i \in DOMAIN pkgs |-> pkgs[i].sol]]
       /\ files = FilesOf(pkgs)
  /\ platform \in Platforms
  /\ \E f \in BOOLEAN, r \in BOOLEAN, rev \in Revisions :
       options = [force |-> f, relocate |-> r, revision |-> rev, args |-> <<>>]
  /\ wc \in Trees
  /\ journal = NoJournal
  /\ command = ""
  /\ pc = "idle"
  /\ idx = 1
  /\ entries = EmptyMap
  /\ result = 0
  /\ deps = EmptyMap
  /\ order = <<>>
  /\ trace = <<>>
  /\ outcome = Running
  /\ runs = 0
  /\ prev = NoRun

----------------------------------------------------------------------------
(* Control flow of an invocation.  pc names the loop that runs and idx its *)
(* iteration; a loop with nothing (left) to iterate over is left at once.  *)

\* (mutant) the DEPS of a solution are resolved right after its update
NextPosInterleaved(cmd, p, i, nsol, ndeps) ==
  IF p = "solutions"
  THEN IF i = 1
       THEN IF nsol >= 1 THEN [pc |-> p, idx |-> 1]
            ELSE IF cmd = "sync" THEN [pc |-> "journal", idx |-> 1]
            ELSE [pc |-> "return", idx |-> 1]
       ELSE [pc |-> "getdeps", idx |-> i - 1]
  ELSE IF p = "getdeps" /\ i <= nsol THEN [pc |-> "solutions", idx |-> i]
  ELSE IF p \in {"getdeps", "explicit"}
          /\ (IF p = "getdeps" THEN 1 ELSE i) <= ndeps
  THEN [pc |-> IF cmd = "sync" THEN "explicit" ELSE "modules",
        idx |-> IF p = "getdeps" THEN 1 ELSE i]
  ELSE IF p \in {"getdeps", "explicit"} /\ cmd = "sync" /\ ndeps > 0
  THEN [pc |-> "inherited", idx |-> 1]
  ELSE IF p = "inherited" /\ i <= ndeps THEN [pc |-> p, idx |-> i]
  ELSE IF p = "modules" /\ i <= ndeps THEN [pc |-> p, idx |-> i]
  ELSE IF cmd = "sync" THEN [pc |-> "journal", idx |-> 1]
  ELSE [pc |-> "return", idx |-> 1]

RECURSIVE NextPos(_, _, _, _, _)
NextPos(cmd, p, i, nsol, ndeps) ==
  IF p = "solutions"
  THEN IF i <= nsol THEN [pc |-> p, idx |-> i]
       ELSE NextPos(cmd, "getdeps", 1, nsol, ndeps)
  ELSE IF p = "getdeps"
  THEN IF i <= nsol THEN [pc |-> p, idx |-> i]
       ELSE NextPos(cmd, IF cmd = "sync" THEN "explicit" ELSE "modules", 1,
                    nsol, ndeps)
  ELSE IF p = "explicit"
  THEN IF i <= ndeps THEN [pc |-> p, idx |-> i]
       ELSE NextPos(cmd, "inherited", 1, nsol, ndeps)
  ELSE IF p = "inherited"
  THEN IF i <= ndeps THEN [pc |-> p, idx |-> i] ELSE [pc |-> "journal", idx |-> 1]
  ELSE IF i <= ndeps THEN [pc |-> p, idx |-> i] ELSE [pc |-> "return", idx |-> 1]

\* go on at iteration i of loop p; a pass-through command that has nothing
\* left to do returns None
Goto(cmd, p, i, ds) ==
  LET n == NextPos(cmd, p, i, Len(client.solutions), Cardinality(DOMAIN ds))
  IN  /\ pc' = IF n.pc = "return" THEN "idle" ELSE n.pc
      /\ idx' = n.idx
      /\ outcome' = IF n.pc = "return" THEN Returned(0) ELSE outcome

\* an exception leaves the invocation
Raise(e) ==
  /\ pc' = "idle"
  /\ idx' = 1
  /\ outcome' = Raised(e)

\* the relpaths and URLs handed to UpdateToURL, in order
Calls(tr) == SelectSeq(tr, LAMBDA e : e.k = "call")

\* the relpaths of the orphan warnings
Warned(tr) == {tr[k].p : k \in {j \in DOMAIN tr : tr[j].k = "orphan"}}

\* what is remembered of the invocation that has ended (prev if there is
\* none): its plan and warnings if it returned, and the journal it left
LastRun ==
  IF command = "" THEN [prev EXCEPT !.journal = journal]
  ELSE IF outcome.status = "returned"
  THEN [command |-> command, outcome |-> outcome, deps |-> deps,
        calls |-> Calls(trace), orphans |-> Warned(trace),
        journal |-> journal]
  ELSE [command |-> command, outcome |-> outcome, deps |-> EmptyMap,
        calls |-> <<>>, orphans |-> {}, journal |-> journal]

\* a new invocation in the same tree, the limit-th at most
Start(cmd, limit) ==
  /\ pc = "idle"
  /\ runs < limit
  /\ runs' = runs + 1
  /\ command' = cmd
  /\ prev' = LastRun
  /\ entries' = EmptyMap
  /\ result' = 0
  /\ deps' = EmptyMap
  /\ order' = <<>>
  /\ trace' = <<>>
  /\ LET n == NextPos(cmd, "solutions", 1, Len(client.solutions), 0)
     IN  /\ pc' = IF n.pc = "return" THEN "idle" ELSE n.pc
         /\ idx' = n.idx
         /\ outcome' = IF n.pc = "return" THEN Returned(0) ELSE Running
  /\ UNCHANGED <<client, files, platform, options, wc, journal>>

\* DoUpdate, DoStatus, DoDiff, DoRevert.  diff and revert leave the tree and
\* the journal as status does; they are explored as the last invocation of
\* a behaviour.
Begin(cmd) ==
  /\ cmd \in {"diff", "revert"} => runs = MaxRuns - 1
  /\ Start(cmd, MaxRuns)

\* (mutant) SOLUTION@REV pins every solution, not the named one only
PinEverySolution(url, name, revision) ==
  IF ~Truthy(revision) THEN url
  ELSE Split(url)[1] \o <<"@">> \o Split(revision)[Len(Split(revision))]

\* UpdateAll: the revision a solution is synced to
PinRevision(url, name, revision) ==
  IF ~Truthy(revision) THEN url
  ELSE LET url_elem == Split(url)
       IN  IF HasNoAt(revision)
           THEN url_elem[1] \o <<"@">> \o revision
           ELSE LET revision_elem == Split(revision)
                IN  IF revision_elem[1] = Str(name)
                    THEN url_elem[1] \o <<"@">> \o revision_elem[2]
                    ELSE url

\* UpdateAll: "if r and result == 0: result = r"
Aggregate(res, r) ==
  IF r.ret = "rv" /\ r.code # 0 /\ res = 0 THEN r.code ELSE res

\* UpdateAll: update_to_url(relpath, url, ...) and the bookkeeping around it
CallUpdateToURL(relpath, url, p, i, rvRelocate, rv) ==
  \E r \in {UpdateToURL(relpath, url, wc[relpath], options, options.args,
                          rvRelocate, rv)} :
      /\ trace' = trace \o <<CallEvent(relpath, url, wc[relpath])>> \o r.ops
      /\ wc' = [wc EXCEPT ![relpath] = r.w]
      /\ IF r.ret = "Error"
         THEN Raise(r.log) /\ UNCHANGED <<entries, result>>
         ELSE /\ entries' = Put(entries, relpath, url)
              /\ result' = Aggregate(result, r)
              /\ Goto("sync", p, i, deps)

\* (mutant) a solution name is never found in entries
NeverSpecifiedTwice(name, seen) == FALSE

\* UpdateAll, RunSVNCommandForClientModules: "if name in entries"
SpecifiedTwice(name, seen) == name \in DOMAIN seen

\* UpdateAll, one iteration of "for s in client['solutions']"
UpdateSolution ==
  /\ pc = "solutions"
  /\ command = "sync"
  /\ LET s == client.solutions[idx]
     IN  IF SpecifiedTwice(s.name, entries)
         THEN /\ Raise("solution specified more than once")
              /\ UNCHANGED <<entries, result, wc, trace>>
         ELSE \E rvRelocate \in ExitCodes, rv \in ExitCodes :
                CallUpdateToURL(s.name,
                                PinRevision(s.url, s.name, options.revision),
                                "solutions", idx + 1, rvRelocate, rv)
  /\ UNCHANGED <<client, files, platform, options, journal, command, deps,
                 order, runs, prev>>

\* (mutant) every command brings the module up to date first
RunUpdateForModule(cmd, relpath, args, rv) ==
  RunSVN(<< <<"update">> >> \o args, relpath, rv)

\* RunSVNCommandForModule
RunSVNCommandForModule(cmd, relpath, args, rv) ==
  RunSVN(<<Str(cmd)>> \o args, relpath, rv)

\* DoRevert appends "--recursive" and "*.*" to the arguments
CommandArgs(cmd, args) ==
  IF cmd = "revert" THEN args \o << <<"--recursive">>, <<"*.*">> >> ELSE args

\* run_svn_command_for_module and what follows it; svn cannot be started in
\* a directory that is not there.
CallCommand(relpath, p, i, rv) ==
  LET r == RunSVNCommandForModule(command, relpath,
                                  CommandArgs(command, options.args), rv)
  IN  IF ~wc[relpath].exists
      THEN /\ trace' = trace \o <<r.events[1]>>
           /\ Raise("OSError")
      ELSE /\ trace' = trace \o r.events
           /\ IF r.raised THEN Raise("failed to run command")
              ELSE Goto(command, p, i, deps)

\* RunSVNCommandForClientModules, one iteration of "for s in client['solutions']"
CommandSolution ==
  /\ pc = "solutions"
  /\ command # "sync"
  /\ LET s == client.solutions[idx]
     IN  IF SpecifiedTwice(s.name, entries)
         THEN /\ Raise("solution specified more than once")
              /\ UNCHANGED <<entries, trace>>
         ELSE /\ entries' = Put(entries, s.name, s.url)
              /\ \E rv \in ExitCodes : CallCommand(s.name, "solutions", idx + 1, rv)
  /\ UNCHANGED <<client, files, platform, options, wc, journal, command,
                 result, deps, order, runs, prev>>

\* GetAllDeps, one iteration of "for solution in client['solutions']"; after
\* the last one the caller sorts the keys.  The dict solution_deps is
\* iterated in any order.
GetAllDepsSolution ==
  /\ pc = "getdeps"
  /\ LET s == client.solutions[idx]
         g == GetDefaultSolutionDeps(files, wc, s.name, platform)
         st0 == [deps |-> deps, err |-> "",
                 events |-> <<Event(IF g.warned THEN "nodeps" ELSE "deps",
                                    s.name, <<>>, 0)>>]
     IN  \E ks \in Orders(DOMAIN g.deps) :
           \E st \in {VisitDeps(s, g.deps, entries, ks, st0)} :
               /\ trace' = trace \o st.events
               /\ IF st.err # ""
                  THEN Raise(st.err) /\ UNCHANGED <<deps, order>>
                  ELSE /\ deps' = st.deps
                       /\ order' = Sort(DOMAIN st.deps)
                       /\ Goto(command, "getdeps", idx + 1, st.deps)
  /\ UNCHANGED <<client, files, platform, options, wc, journal, command,
                 entries, result, runs, prev>>

\* UpdateAll, one iteration of the first pass "for d in deps_to_update"
ExplicitDep ==
  /\ pc = "explicit"
  /\ LET d == order[idx]
     IN  IF deps[d].kind = "str"
         THEN \E rvRelocate \in ExitCodes, rv \in ExitCodes :
                CallUpdateToURL(d, deps[d].v, "explicit", idx + 1, rvRelocate, rv)
         ELSE /\ Goto("sync", "explicit", idx + 1, deps)
              /\ UNCHANGED <<entries, result, wc, trace>>
  /\ UNCHANGED <<client, files, platform, options, journal, command, deps,
                 order, runs, prev>>

\* (mutant) the DEPS file of the first solution is read instead
FirstSolutionName(value) == client.solutions[1].name

\* UpdateAll: deps[d].module_name
ModuleName(value) == value.v[1]

\* what update_to_url is handed for a DEPS value: the URL, or the From()
\* object, written as FromImpl.__str__ writes it
Handed(value) == IF value.kind = "str" THEN value.v ELSE <<"From">> \o value.v

\* UpdateAll, one iteration of the second pass "for d in deps_to_update".
\* A value of sub_deps that is no string makes svnurl.split fail, unless
\* UpdateToURL has returned before it for a directory under git.
InheritedDep ==
  /\ pc = "inherited"
  /\ LET d == order[idx]
         sub_deps == GetDefaultSolutionDeps(files, wc, ModuleName(deps[d]),
                                            platform)
         read == Event(IF sub_deps.warned THEN "nodeps" ELSE "deps",
                       ModuleName(deps[d]), <<>>, 0)
     IN  IF deps[d].kind = "str"
         THEN /\ Goto("sync", "inherited", idx + 1, deps)
              /\ UNCHANGED <<entries, result, wc, trace>>
         ELSE IF d \notin DOMAIN sub_deps.deps
         THEN /\ Raise("KeyError")
              /\ trace' = trace \o <<read>>
              /\ UNCHANGED <<entries, result, wc>>
         ELSE IF sub_deps.deps[d].kind # "str"
         THEN /\ trace' = trace \o <<read, CallEvent(d, Handed(sub_deps.deps[d]),
                                                     wc[d])>>
              /\ IF FoundGit(wc[d])
                 THEN /\ entries' = Put(entries, d, Handed(sub_deps.deps[d]))
                      /\ Goto("sync", "inherited", idx + 1, deps)
                 ELSE /\ Raise("AttributeError")
                      /\ UNCHANGED entries
              /\ UNCHANGED <<result, wc>>
         ELSE \E rvRelocate \in ExitCodes, rv \in ExitCodes :
                \E r \in {UpdateToURL(d, sub_deps.deps[d].v, wc[d], options,
                                        options.args, rvRelocate, rv)} :
                    /\ trace' = trace
                                \o <<read, CallEvent(d, sub_deps.deps[d].v, wc[d])>>
                                \o r.ops
                    /\ wc' = [wc EXCEPT ![d] = r.w]
                    /\ IF r.ret = "Error"
                       THEN Raise(r.log) /\ UNCHANGED <<entries, result>>
                       ELSE /\ entries' = Put(entries, d, sub_deps.deps[d].v)
                            /\ result' = Aggregate(result, r)
                            /\ Goto("sync", "inherited", idx + 1, deps)
  /\ UNCHANGED <<client, files, platform, options, journal, command, deps,
                 order, runs, prev>>

\* (mutant) the .gclient_entries of the last sync is not looked at
ReadNoEntries(j) == {}

\* ReadClientEntriesFile: the names in .gclient_entries, none if there is
\* no such file
ReadClientEntriesFile(j) == IF j.present THEN j.entries ELSE {}

\* (mutant) the entries kept with the value None are not written
CreateWithoutOrphans(all) ==
  [present |-> TRUE, entries |-> {e \in DOMAIN all : all[e] # None}]

\* CreateClientEntriesFile: the keys of entries are written
CreateClientEntriesFile(all) == [present |-> TRUE, entries |-> DOMAIN all]

\* (mutant) an entry is orphaned whether or not its directory is there
OrphansWithoutDirectory(prev_entries, plan, w) ==
  {e \in prev_entries : e \notin DOMAIN plan}

\* UpdateAll: "if entry not in entries and path_exists(e_dir)"
Orphans(prev_entries, plan, w) ==
  {e \in prev_entries : e \notin DOMAIN plan /\ w[e].exists}

\* UpdateAll: the orphaned entries, the new .gclient_entries, "return result"
WriteEntries ==
  /\ pc = "journal"
  /\ LET prev_entries == ReadClientEntriesFile(journal)
         orphans == Orphans(prev_entries, entries, wc)
         all == [e \in DOMAIN entries \cup orphans |->
                   IF e \in orphans THEN None ELSE entries[e]]
         warnings == [i \in 1..Len(Sort(orphans)) |->
                        Event("orphan", Sort(orphans)[i], <<>>, 0)]
     IN  /\ entries' = all
         /\ journal' = CreateClientEntriesFile(all)
         /\ trace' = trace \o warnings \o <<Event("journal", ".", <<>>, 0)>>
  /\ outcome' = Returned(result)
  /\ pc' = "idle"
  /\ idx' = 1
  /\ UNCHANGED <<client, files, platform, options, wc, command, result, deps,
                 order, runs, prev>>

\* RunSVNCommandForClientModules, one iteration of "for d in deps_to_show"
CommandModule ==
  /\ pc = "modules"
  /\ \E rv \in ExitCodes : CallCommand(order[idx], "modules", idx + 1, rv)
  /\ UNCHANGED <<client, files, platform, options, wc, journal, command,
                 entries, result, deps, order, runs, prev>>

\* "__main__": the exit status is what Main returns (None gives 0), and 1
\* when an Error is caught or another exception ends the interpreter
ExitStatus(o) == IF o.status = "raised" THEN 1 ELSE o.value

Next ==
  \/ \E cmd \in Commands : Begin(cmd)
  \/ UpdateSolution
  \/ CommandSolution
  \/ GetAllDepsSolution
  \/ ExplicitDep
  \/ InheritedDep
  \/ WriteEntries
  \/ CommandModule

Spec == Init /\ [][Next]_vars

----------------------------------------------------------------------------
(* The client over time: between syncs the user takes a solution out of    *)
(* .gclient and removes directories from the working tree.                 *)

MaxSyncs == MaxRuns + 2

\* the relpaths at or beneath p
Beneath(p) == IF p = "a" THEN {"a", "a/b"} ELSE {p}

\* the invocation that has ended is history
Archive ==
  /\ prev' = LastRun
  /\ command' = ""
  /\ trace' = <<>>
  /\ outcome' = Running
  /\ entries' = EmptyMap
  /\ result' = 0
  /\ deps' = EmptyMap
  /\ order' = <<>>

\* solution i is taken out of the .gclient file
RemoveSolution(i) ==
  /\ pc = "idle"
  /\ runs > 0 /\ runs < MaxSyncs
  /\ i \in DOMAIN client.solutions
  /\ client' = [solutions |->
                  SubSeq(client.solutions, 1, i - 1)
                  \o SubSeq(client.solutions, i + 1, Len(client.solutions))]
  /\ Archive
  /\ UNCHANGED <<files, platform, options, wc, journal, pc, idx, runs>>

\* the directory root_dir/p, which the last sync has warned about, is
\* removed with all beneath it
RemoveDirectory(p) ==
  /\ pc = "idle"
  /\ runs > 0 /\ runs < MaxSyncs
  /\ p \in LastRun.orphans
  /\ wc[p].exists
  /\ wc' = [q \in DOMAIN wc |-> IF q \in Beneath(p) THEN Absent ELSE wc[q]]
  /\ Archive
  /\ UNCHANGED <<client, files, platform, options, journal, pc, idx, runs>>

\* a client with nothing checked out and no option given
InitOrphans ==
  /\ Init
  /\ options = [force |-> FALSE, relocate |-> FALSE, revision |-> None,
                args |-> <<>>]
  /\ wc = Tree(EmptyMap)

NextOrphans ==
  \/ Start("sync", MaxSyncs)
  \/ UpdateSolution
  \/ GetAllDepsSolution
  \/ ExplicitDep
  \/ InheritedDep
  \/ WriteEntries
  \/ \E i \in 1..MaxSolutions : RemoveSolution(i)
  \/ \E p \in Paths : RemoveDirectory(p)

SpecOrphans == InitOrphans /\ [][NextOrphans]_vars

----------------------------------------------------------------------------
(* One solution on every host: the DEPS file of "s1" binds deps, deps_os,  *)
(* both or nothing, or is not there, and sys.platform is any of the        *)
(* strings below.                                                          *)

DepsPlatforms ==
  {"win32", "win", "darwin", "mac", "unix", "linux2", "freebsd", "sunos5"}

DepsFile(binds_, deps_, deps_os_) ==
  [present |-> TRUE, binds |-> binds_, deps |-> deps_, deps_os |-> deps_os_]

DepsFiles ==
  { NoManifest,
    DepsFile({}, EmptyMap, EmptyMap),
    DepsFile({"deps"}, Map1("a", S(AtRev(U("http://a", "/liba"), "1"))),
             EmptyMap),
    DepsFile({"deps_os"}, EmptyMap,
             ("win" :> Map1("a", S(AtRev(U("http://a", "/liba"), "1"))))
             @@ ("unix" :> Map1("a/b", S(U("http://a", "/libb"))))),
    DepsFile({"deps", "deps_os"},
             ("a" :> S(AtRev(U("http://a", "/liba"), "1")))
             @@ ("m" :> S(AtRev(U("http://a", "/m"), "1"))),
             ("win" :> Map1("a", From("m")))
             @@ ("mac" :> Map1("a/b", S(U("http://a", "/libb"))))
             @@ ("unix" :> Map1("a", S(AtRev(U("http://a", "/liba"), "2"))))
             @@ ("linux2" :> Map1("a", S(U("http://c", "/liba"))))) }

InitDeps ==
  /\ client = [solutions |->
                 <<[name |-> "s1", url |-> U("http://a", "/s1"),
                    custom_deps |-> EmptyMap]>>]
  /\ \E f \in DepsFiles :
       files = ("s1" :> f)
               @@ ("m" :> Manifest(Map1("a", S(AtRev(U("http://a", "/liba"), "2"))),
                                   EmptyMap))
  /\ platform \in DepsPlatforms
  /\ options = [force |-> FALSE, relocate |-> FALSE, revision |-> None,
                args |-> <<>>]
  /\ wc \in {Tree(EmptyMap), Tree(Map1("s1", WorkingCopy(U("http://a", "/s1"), "1")))}
  /\ journal = NoJournal
  /\ command = ""
  /\ pc = "idle"
  /\ idx = 1
  /\ entries = EmptyMap
  /\ result = 0
  /\ deps = EmptyMap
  /\ order = <<>>
  /\ trace = <<>>
  /\ outcome = Running
  /\ runs = 0
  /\ prev = NoRun

NextDeps ==
  \/ Start("sync", MaxRuns)
  \/ UpdateSolution
  \/ GetAllDepsSolution
  \/ ExplicitDep
  \/ InheritedDep
  \/ WriteEntries

SpecDeps == InitDeps /\ [][NextDeps]_vars

----------------------------------------------------------------------------
(* gclient config.  Here a string is the sequence of its pieces, "/" being *)
(* a piece of its own, and client is the .gclient file of the current      *)
(* directory.                                                              *)

NoClient == [present |-> FALSE, source |-> <<>>]

\* str.split("/"): the pieces between the slashes, at least one
RECURSIVE SplitSlash(_)
SplitSlash(s) ==
  IF \A i \in DOMAIN s : s[i] # "/" THEN <<s>>
  ELSE LET i == CHOOSE k \in DOMAIN s :
                  s[k] = "/" /\ \A j \in 1..(k - 1) : s[j] # "/"
       IN  <<SubSeq(s, 1, i - 1)>> \o SplitSlash(SubSeq(s, i + 1, Len(s)))

\* (mutant) the first piece of the URL is taken
FirstComponent(svnurl) == SplitSlash(svnurl)[1]

\* DoConfig: name = args[0].split("/")[-1]
LastComponent(svnurl) == SplitSlash(svnurl)[Len(SplitSlash(svnurl))]

\* DEFAULT_CLIENT_FILE_TEXT % (solution_name, solution_url)
DefaultClientFileText(solution_name, solution_url) ==
  <<"solutions = [{ name: ">> \o solution_name \o <<", url: ">>
  \o solution_url \o <<", custom_deps: {} }]">>

CreateClientFileFromText(text) == [present |-> TRUE, source |-> text]

CreateClientFile(solution_name, solution_url) ==
  CreateClientFileFromText(DefaultClientFileText(solution_name, solution_url))

\* the texts given with --spec: none, the empty string, a client file
SpecTexts == {None, <<>>, <<"solutions = []">>}

\* the URLs given to config
ConfigURLs ==
  { <<"http:", "/", "/", "a", "/", "s1">>,
    <<"http:", "/", "/", "a", "/", "trunk", "/", "s2">>,
    <<"http:", "/", "/", "a", "/", "s1", "/">>,
    <<"s1">> }

\* the arguments of config: nothing, a URL, a URL and more
ConfigArgs ==
  {<<>>} \cup {<<u>> : u \in ConfigURLs}
         \cup {<<u, <<"other">> >> : u \in ConfigURLs}

\* DoConfig
DoConfig ==
  /\ pc = "idle"
  /\ runs < MaxRuns
  /\ runs' = runs + 1
  /\ command' = "config"
  /\ IF Len(options.args) < 1 /\ ~Truthy(options.spec)
     THEN /\ outcome' = Raised("required argument missing")
          /\ UNCHANGED <<client, trace>>
     ELSE IF client.present
     THEN /\ outcome' = Raised(".gclient file already exists")
          /\ UNCHANGED <<client, trace>>
     ELSE /\ client' = IF Truthy(options.spec)
                       THEN CreateClientFileFromText(options.spec)
                       ELSE CreateClientFile(LastComponent(options.args[1]),
                                             options.args[1])
          /\ trace' = trace \o <<Event("write", ".gclient", <<>>, 0)>>
          /\ outcome' = Returned(0)
  /\ UNCHANGED <<files, platform, options, wc, journal, pc, idx, entries,
                 result, deps, order, prev>>

InitConfig ==
  /\ client \in {NoClient, CreateClientFileFromText(<<"solutions = []">>)}
  /\ files = EmptyMap
  /\ platform \in Platforms
  /\ \E text \in SpecTexts, a \in ConfigArgs :
       options = [force |-> FALSE, relocate |-> FALSE, revision |-> None,
                  spec |-> text, args |-> a]
  /\ wc = Tree(EmptyMap)
  /\ journal = NoJournal
  /\ command = ""
  /\ pc = "idle"
  /\ idx = 1
  /\ entries = EmptyMap
  /\ result = 0
  /\ deps = EmptyMap
  /\ order = <<>>
  /\ trace = <<>>
  /\ outcome = Running
  /\ runs = 0
  /\ prev = NoRun

NextConfig == DoConfig

SpecConfig == InitConfig /\ [][NextConfig]_vars

----------------------------------------------------------------------------
(* One solution over the working copies UpdateToURL can find: at the       *)
(* target, on another branch, in a mirror of the repository (on the same   *)
(* or another branch), in another repository, taken over by git, without   *)
(* svn metadata, and with metadata that names no repository root.          *)

NotAWorkingCopy == [exists |-> TRUE, git |-> FALSE, info |-> NoInfo]
GitDirectory == [exists |-> TRUE, git |-> TRUE, info |-> NoInfo]
Rootless(url, rev) ==
  [exists |-> TRUE, git |-> FALSE,
   info |-> [URL |-> url, Revision |-> <<rev>>, Root |-> None, UUID |-> None]]

SolutionCopies ==
  { Absent,
    WorkingCopy(U("http://a", "/s1"), "1"),
    WorkingCopy(U("http://a", "/old"), "1"),
    WorkingCopy(U("http://b", "/s1"), "1"),
    WorkingCopy(U("http://b", "/old"), "1"),
    WorkingCopy(U("http://c", "/s1"), "1"),
    GitDirectory,
    NotAWorkingCopy,
    Rootless(U("http://a", "/old"), "1") }

DependencyCopies ==
  { Absent,
    WorkingCopy(U("http://b", "/liba"), "1"),
    WorkingCopy(U("http://b", "/old"), "1"),
    GitDirectory }

InitUpdate ==
  /\ \E pkg \in {q \in Packages : q.sol.name = "s1"} :
       /\ client = [solutions |-> <<pkg.sol>>]
       /\ files = FilesOf(<<pkg>>)
  /\ platform \in Platforms
  /\ \E f \in BOOLEAN, r \in BOOLEAN :
       options = [force |-> f, relocate |-> r, revision |-> None, args |-> <<>>]
  /\ \E s \in SolutionCopies, a \in DependencyCopies :
       wc = Tree(("s1" :> s) @@ ("a" :> a))
  /\ journal = NoJournal
  /\ command = ""
  /\ pc = "idle"
  /\ idx = 1
  /\ entries = EmptyMap
  /\ result = 0
  /\ deps = EmptyMap
  /\ order = <<>>
  /\ trace = <<>>
  /\ outcome = Running
  /\ runs = 0
  /\ prev = NoRun

NextUpdate ==
  \/ Start("sync", MaxRuns)
  \/ UpdateSolution
  \/ GetAllDepsSolution
  \/ ExplicitDep
  \/ InheritedDep
  \/ WriteEntries

SpecUpdate == InitUpdate /\ [][NextUpdate]_vars

----------------------------------------------------------------------------
(* From() references: to the module "m", which is no solution, and to the  *)
(* solution "s1"; the DEPS file of "m" binds the relpath to a URL, does    *)
(* not bind it, is not there, or binds it to another From().               *)

FromPackages ==
  { Package("s1", U("http://a", "/s1"), EmptyMap,
            Manifest(("a" :> From("m"))
                     @@ ("m" :> S(AtRev(U("http://a", "/m"), "1"))), EmptyMap)),
    Package("s1", U("http://a", "/s1"), EmptyMap,
            Manifest(Map1("a", S(AtRev(U("http://a", "/liba"), "1"))), EmptyMap)),
    Package("s2", U("http://a", "/s2"), EmptyMap,
            Manifest(("a" :> From("s1"))
                     @@ ("a/b" :> S(U("http://a", "/libb"))), EmptyMap)),
    Package("s2", U("http://a", "/s2"), EmptyMap,
            Manifest(Map1("a", From("m")), EmptyMap)),
    Package("s2", U("http://a", "/s2"),
            Map1("a", S(AtRev(U("http://a", "/liba"), "2"))),
            Manifest(Map1("a", From("s1")), EmptyMap)),
    \* values without a scheme, one in custom_deps and one in DEPS
    Package("s2", U("http://a", "/s2"),
            Map1("a", S(<<"/liba">>)),
            Manifest(("a" :> S(AtRev(U("http://a", "/liba"), "1")))
                     @@ ("a/b" :> S(<<"/libb">>)), EmptyMap)) }

ModuleFiles ==
  { Manifest(Map1("a", S(AtRev(U("http://a", "/liba"), "2"))), EmptyMap),
    Manifest(Map1("a/b", S(U("http://a", "/libb"))), EmptyMap),
    Manifest(Map1("a", From("x")), EmptyMap),
    NoManifest }

InitFrom ==
  /\ \E pkgs \in UNION {[1..n -> FromPackages] : n \in 1..MaxSolutions} :
       /\ client = [solutions |-> [i \in DOMAIN pkgs |-> pkgs[i].sol]]
       /\ \E f \in ModuleFiles : files = [FilesOf(pkgs) EXCEPT !["m"] = f]
  /\ platform \in Platforms
  /\ options = [force |-> FALSE, relocate |-> FALSE, revision |-> None,
                args |-> <<>>]
  /\ wc \in { Tree(EmptyMap),
               Tree(Map1("a", GitDirectory)),
               Tree(Map1("m", WorkingCopy(U("http://a", "/m"), "1"))) }
  /\ journal = NoJournal
  /\ command = ""
  /\ pc = "idle"
  /\ idx = 1
  /\ entries = EmptyMap
  /\ result = 0
  /\ deps = EmptyMap
  /\ order = <<>>
  /\ trace = <<>>
  /\ outcome = Running
  /\ runs = 0
  /\ prev = NoRun

NextFrom ==
  \/ Start("sync", MaxRuns)
  \/ UpdateSolution
  \/ GetAllDepsSolution
  \/ ExplicitDep
  \/ InheritedDep
  \/ WriteEntries

SpecFrom == InitFrom /\ [][NextFrom]_vars

----------------------------------------------------------------------------
(* Properties *)

Ended == pc = "idle" /\ outcome.status # "running"
Sols == client.solutions

\* an svn command of the invocation exited nonzero
Failed(tr) == \E i \in DOMAIN tr : IsSvn(tr[i]) /\ tr[i].rv # 0

\* the first nonzero exit code of the invocation, 0 if there is none
FirstNonzero(tr) ==
  IF ~Failed(tr) THEN 0
  ELSE tr[CHOOSE i \in DOMAIN tr :
            /\ IsSvn(tr[i]) /\ tr[i].rv # 0
            /\ \A j \in 1..(i - 1) : ~(IsSvn(tr[j]) /\ tr[j].rv # 0)].rv

ResolverErrors ==
  {"solution specified more than once",
   "solutions have conflicting versions of dependency",
   "dependency conflicts with specified solution",
   "relative DEPS entry must begin with a slash"}

ResolverError == outcome.status = "raised" /\ outcome.err \in ResolverErrors

\* the entries an invocation has worked on: the calls of update_to_url of a
\* sync, the svn commands of status, diff and revert
Handled(tr) ==
  SelectSeq(tr, LAMBDA e : e.k = "call" \/ (command # "sync" /\ IsSvn(e)))

\* the index of the first solution whose name an earlier solution has
FirstDuplicate ==
  CHOOSE j \in DOMAIN Sols :
    /\ \E i \in 1..(j - 1) : Sols[i].name = Sols[j].name
    /\ \A k \in 1..(j - 1) : \A i \in 1..(k - 1) : Sols[i].name # Sols[k].name

\* what UpdateToURL did for the call at trace[i]: the driver events after it
OpsOf(tr, i) ==
  LET later == {j \in (i + 1)..Len(tr) : tr[j].k \notin {"info", "echo", "svn"}}
      last  == IF later = {} THEN Len(tr)
               ELSE (CHOOSE j \in later : \A k \in later : j <= k) - 1
  IN  SubSeq(tr, i + 1, last)

\* the working copy of a call is at the URL and the revision asked for
UpToDate(e) ==
  /\ e.w.exists
  /\ Len(Split(e.c[1])) > 1
  /\ e.w.info.URL = Split(e.c[1])[1]
  /\ e.w.info.Revision = Split(e.c[1])[2]

HasRevision(e) == Len(Split(e.c[1])) > 1

Rank(path) == CHOOSE i \in DOMAIN SortedPaths : SortedPaths[i] = path

\* the calls of update_to_url for dependencies (those after the solutions')
DepCalls(tr) ==
  LET cs == Calls(tr)
  IN  IF Len(cs) <= Len(Sols) THEN <<>> ELSE SubSeq(cs, Len(Sols) + 1, Len(cs))

\* relpath and URL of each call, in order
Plan(cs) == [i \in DOMAIN cs |-> <<cs[i].p, cs[i].c>>]

\* the previous invocation was a sync that returned 0
AfterGoodSync == prev.command = "sync" /\ prev.outcome = Returned(0)

\* the DEPS files read by the invocation so far
DepsEvents(tr) == SelectSeq(tr, LAMBDA e : e.k \in {"deps", "nodeps"})

\* GetAllDeps has returned in the running (or just ended) invocation
ResolvedAll ==
  /\ command # ""
  /\ ~ResolverError
  /\ Len(DepsEvents(trace)) >= Len(Sols)

\* what the DEPS file of solution i declares
Declared(i) == GetDefaultSolutionDeps(files, wc, Sols[i].name, platform).deps

\* solution i binds relpath d to None in its custom_deps
CustomNone(i, d) ==
  d \in DOMAIN Sols[i].custom_deps /\ Sols[i].custom_deps[d] = NoneVal

\* C1: in a sync, when an svn command exits nonzero the engine records the
\* code and goes on with the remaining entries instead of aborting.
C1_ContinuesAfterFailure ==
  (command = "sync" /\ Failed(trace))
    => (outcome.status # "raised" /\ result # 0)

\* C2: a sync returns the first nonzero exit code in processing order, and 0
\* if there is none.
C2_ReturnsFirstNonzero ==
  (command = "sync" /\ Ended /\ (Failed(trace) \/ outcome.status = "returned"))
    => outcome = Returned(FirstNonzero(trace))

\* C3 (as claimed): when an invocation fails with a resolver error, no svn
\* command has been issued earlier in it.
C3_NothingBeforeResolverError ==
  ResolverError => \A i \in DOMAIN trace : ~IsSvn(trace[i])

\* C3 (amended): when an invocation fails with a resolver error, the entries
\* worked on so far are solutions, in declared order: those before the
\* duplicate when a solution is specified twice, all of them when the error
\* comes from the resolution of the dependencies; no dependency is among them.
C3_OnlySolutionsBeforeResolverError ==
  ResolverError =>
    /\ \A i \in DOMAIN Handled(trace) :
         i <= Len(Sols) /\ Handled(trace)[i].p = Sols[i].name
    /\ Len(Handled(trace)) =
         IF outcome.err = "solution specified more than once"
         THEN FirstDuplicate - 1 ELSE Len(Sols)

C3_Witness ==
  /\ ResolverError
  /\ outcome.err # "solution specified more than once"
  /\ command = "status"
  /\ Len(Handled(trace)) = MaxSolutions

\* C4: when svn commands fail during a sync, .gclient_entries is still
\* written at the end of that sync and lists every entry that was attempted.
C4_JournalAfterFailure ==
  (command = "sync" /\ Ended /\ Failed(trace)) =>
    /\ \E i \in DOMAIN trace : trace[i].k = "journal"
    /\ \A i \in DOMAIN trace : trace[i].k = "call" => trace[i].p \in journal.entries

\* C5 (as claimed): a sync without --force that follows a successful sync of
\* the same client issues no checkout, update, switch or relocate.
C5_SecondSyncIssuesNothing ==
  (command = "sync" /\ AfterGoodSync /\ ~options.force)
    => \A i \in DOMAIN trace : ~IsMutating(trace[i])

\* C5 (amended): a sync without --force that follows a successful sync of the
\* same client issues no checkout, switch or relocate, and nothing at all for
\* an entry whose URL carries a revision; for an entry whose URL carries no
\* revision it issues a plain "svn update".
C5_SecondSyncOnlyUpdatesUnpinned ==
  (command = "sync" /\ AfterGoodSync /\ ~options.force) =>
    \A i \in DOMAIN trace :
      trace[i].k = "call" =>
        \A j \in DOMAIN OpsOf(trace, i) :
          IsMutating(OpsOf(trace, i)[j]) =>
            /\ ~HasRevision(trace[i])
            /\ OpsOf(trace, i)[j].c = << <<"svn">>, <<"update">> >>

C5_Witness ==
  /\ command = "sync" /\ AfterGoodSync /\ ~options.force /\ Ended
  /\ \E i \in DOMAIN trace :
       trace[i].k = "call" /\ HasRevision(trace[i]) /\ trace[i].w.exists
  /\ \E i \in DOMAIN trace : IsMutating(trace[i])

\* C6: in a sync without --force, an entry whose working copy is at the
\* target URL and the target revision gets the Info query and nothing else.
C6_NoMutationWhenUpToDate ==
  (command = "sync" /\ ~options.force) =>
    \A i \in DOMAIN trace :
      (trace[i].k = "call" /\ UpToDate(trace[i])) =>
        OpsOf(trace, i) = <<Event("info", trace[i].p, <<Str(trace[i].p)>>, 0)>>

C6_Witness ==
  /\ command = "sync" /\ ~options.force
  /\ \E i \in DOMAIN trace : trace[i].k = "call" /\ UpToDate(trace[i])

\* C7 (as claimed): within a sync no relpath is handed to UpdateToURL twice.
C7_RelpathsDistinct ==
  command = "sync" =>
    \A i, j \in DOMAIN Calls(trace) :
      i < j => Calls(trace)[i].p # Calls(trace)[j].p

\* C7 (amended): within a sync no two solutions and no two dependencies have
\* the same relpath; a relpath is handed to UpdateToURL twice only as a
\* solution and then as a dependency of that name, with the same URL.
C7_RelpathTwiceOnlyAsSolutionAndDep ==
  command = "sync" =>
    \A i, j \in DOMAIN Calls(trace) :
      (i < j /\ Calls(trace)[i].p = Calls(trace)[j].p) =>
        /\ i <= Len(Sols)
        /\ j > Len(Sols)
        /\ Calls(trace)[i].c = Calls(trace)[j].c

C7_Witness ==
  /\ command = "sync"
  /\ \E i, j \in DOMAIN Calls(trace) :
       i < j /\ Calls(trace)[i].p = Calls(trace)[j].p

\* C8: two invocations on the same client, DEPS files and platform resolve
\* to the same map of dependencies, and two syncs hand the same relpaths and
\* URLs to UpdateToURL in the same order, whatever order the dicts iterate in.
C8_ResolutionDeterministic ==
  (Ended /\ outcome.status = "returned" /\ prev.outcome.status = "returned") =>
    /\ deps = prev.deps
    /\ (command = "sync" /\ prev.command = "sync")
         => Plan(Calls(trace)) = Plan(prev.calls)

C8_Witness ==
  /\ Ended /\ outcome.status = "returned" /\ prev.outcome.status = "returned"
  /\ command = "sync" /\ prev.command = "sync"
  /\ Cardinality(DOMAIN deps) > 2

C10_SolutionsFirst ==
  command = "sync" =>
    /\ \A i \in DOMAIN trace :
         trace[i].k \in {"deps", "nodeps"} =>
           /\ Len(Calls(SubSeq(trace, 1, i - 1))) >= Len(Sols)
           /\ \A j \in DOMAIN Sols :
                Calls(SubSeq(trace, 1, i - 1))[j].p = Sols[j].name
    /\ \A i \in DOMAIN trace :
         (trace[i].k = "call" /\ Len(Calls(SubSeq(trace, 1, i - 1))) >= Len(Sols))
           => \E j \in 1..(i - 1) : trace[j].k \in {"deps", "nodeps"}

C10_Witness ==
  /\ command = "sync"
  /\ Len(Sols) = MaxSolutions
  /\ Len(DepCalls(trace)) > 0
  /\ \E i \in DOMAIN trace : trace[i].k = "deps"

\* solution i contributes an entry for relpath d: its DEPS declares d, its
\* custom_deps does not exclude it and it is no From(...) reference to a
\* solution of the client
Contributes(i, d) ==
  /\ d \in DOMAIN Declared(i)
  /\ ~CustomNone(i, d)
  /\ (d \in DOMAIN Sols[i].custom_deps
        \/ Declared(i)[d].kind = "str"
        \/ \A j \in DOMAIN Sols : Declared(i)[d].v # Str(Sols[j].name))

\* the repository root of a URL: what comes before the first "/"
RootOf(url) == <<Head(url)>>

\* the value solution i contributes for d: the custom value, or the DEPS
\* value with a URL without scheme put under the root of the solution's URL
Contribution(i, d) ==
  IF d \in DOMAIN Sols[i].custom_deps THEN Sols[i].custom_deps[d]
  ELSE IF Declared(i)[d].kind = "str" /\ ~HasScheme(Declared(i)[d].v)
  THEN S(RootOf(Sols[i].url) \o Declared(i)[d].v)
  ELSE Declared(i)[d]

\* equal URLs, or From(...) references to the same module
SameValue(a, b) == a.kind = b.kind /\ a.v = b.v

\* the URL solution j is handled with: the one handed to UpdateToURL in a
\* sync, the declared one in the pass-through commands
Target(j) == IF command = "sync" THEN Calls(trace)[j].c[1] ELSE Sols[j].url

\* solution i contributes, for the relpath d, something else than the target
\* of the solution named d
Collides(i, d) ==
  /\ Contributes(i, d)
  /\ \E j \in DOMAIN Sols :
       Sols[j].name = d /\ ~SameValue(Contribution(i, d), S(Target(j)))

\* C11 (as claimed): a relpath that a solution's custom_deps binds to None is
\* absent from the resolved map, whatever the DEPS of that or of any other
\* solution says about it.
C11_CustomNoneAbsent ==
  ResolvedAll =>
    \A i \in DOMAIN Sols : \A d \in Paths :
      CustomNone(i, d) => d \notin DOMAIN deps

\* C11 (amended): a relpath that a solution's custom_deps binds to None is
\* not taken from the DEPS of that solution: a relpath is in the resolved map
\* only if the DEPS of some solution that does not bind it to None declares it.
C11_CustomNoneNotTakenFromOwnDeps ==
  ResolvedAll =>
    \A d \in DOMAIN deps :
      \E i \in DOMAIN Sols : d \in DOMAIN Declared(i) /\ ~CustomNone(i, d)

C11_Witness ==
  /\ ResolvedAll
  /\ \E i \in DOMAIN Sols : \E d \in DOMAIN Declared(i) :
       CustomNone(i, d) /\ d \notin DOMAIN deps
  /\ DOMAIN deps # {}

\* C12: a custom_deps key with a value other than None is in the resolved
\* map with the custom value, whether or not the DEPS of the solution
\* declares the key.
C12_CustomDepsHonored ==
  ResolvedAll =>
    \A i \in DOMAIN Sols : \A d \in DOMAIN Sols[i].custom_deps :
      ~CustomNone(i, d) =>
        d \in DOMAIN deps /\ deps[d] = Sols[i].custom_deps[d]

\* C13: when two solutions contribute the same relpath, the resolved map has
\* the one entry if the two values are equal (equal URLs, or From references
\* to the same module); if they differ resolution fails, and it fails with
\* "solutions have conflicting versions of dependency" only then.
C13_SameRelpathEqualOrConflict ==
  /\ ResolvedAll =>
       \A i, j \in DOMAIN Sols : \A d \in Paths :
         (i < j /\ Contributes(i, d) /\ Contributes(j, d)) =>
           /\ SameValue(Contribution(i, d), Contribution(j, d))
           /\ d \in DOMAIN deps
           /\ SameValue(deps[d], Contribution(i, d))
  /\ (ResolverError
      /\ outcome.err = "solutions have conflicting versions of dependency") =>
       \E i, j \in DOMAIN Sols : \E d \in Paths :
         /\ i < j /\ Contributes(i, d) /\ Contributes(j, d)
         /\ ~SameValue(Contribution(i, d), Contribution(j, d))

C13_Witness ==
  /\ ResolvedAll
  /\ \E i, j \in DOMAIN Sols : \E d, e \in Paths :
       /\ i < j /\ Contributes(i, d) /\ Contributes(j, d)
       /\ Contributes(i, e) /\ Contributes(j, e)
       /\ deps[d].kind = "from" /\ deps[e].kind = "str"

\* C14: resolution does not succeed when the relpath of a dependency is the
\* name of a solution and its target differs from the target of that
\* solution, and it fails with "dependency conflicts with specified solution"
\* only then.
C14_DependencyConflictsWithSolution ==
  /\ ResolvedAll =>
       \A i \in DOMAIN Sols : \A d \in Paths : ~Collides(i, d)
  /\ (ResolverError
      /\ outcome.err = "dependency conflicts with specified solution") =>
       \E i \in DOMAIN Sols : \E d \in Paths : Collides(i, d)

C14_Witness ==
  /\ ResolverError
  /\ outcome.err = "dependency conflicts with specified solution"
  /\ command = "sync"
  /\ \E i \in DOMAIN Sols : \E d \in Paths : Collides(i, d)

\* two solutions of the client have the same name
Duplicate == \E i, j \in DOMAIN Sols : i < j /\ Sols[i].name = Sols[j].name

\* the errors of the svn driver: a command that exits nonzero, a directory
\* that is missing, a working copy without URL
DriverErrors ==
  {"failed to run command", "OSError", "Couldn't get URL for relative path"}

DeclaresURL(i, d) ==
  /\ d \in DOMAIN Declared(i)
  /\ d \notin DOMAIN Sols[i].custom_deps
  /\ Declared(i)[d].kind = "str"

\* the invocation is a sync that has returned
SyncReturned == command = "sync" /\ Ended /\ outcome.status = "returned"

\* C16: a DEPS entry whose URL has no scheme and begins with "/" resolves to
\* the repository root of the owning solution's URL followed by the entry,
\* after an Info query on that URL; an entry whose URL has a scheme resolves
\* to itself.  A sync hands the resolved URL to UpdateToURL.
C16_RelativeURLUnderRepositoryRoot ==
  ResolvedAll =>
    \A i \in DOMAIN Sols : \A d \in Paths :
      DeclaresURL(i, d) =>
        LET v == Declared(i)[d].v
            resolved == IF HasScheme(v) THEN v ELSE RootOf(Sols[i].url) \o v
        IN  /\ d \in DOMAIN deps
            /\ deps[d] = S(resolved)
            /\ ~HasScheme(v) =>
                 /\ StartsWithSlash(v)
                 /\ \E k \in DOMAIN trace :
                      trace[k] = Event("info", Sols[i].name, <<Sols[i].url>>, 0)
            /\ SyncReturned =>
                 \E k \in DOMAIN Calls(trace) :
                   Calls(trace)[k].p = d /\ Calls(trace)[k].c = <<resolved>>

C16_Witness ==
  /\ ResolvedAll /\ SyncReturned
  /\ \E i, j \in DOMAIN Sols : \E d, e \in Paths :
       /\ DeclaresURL(i, d) /\ ~HasScheme(Declared(i)[d].v)
       /\ Len(Split(Sols[i].url)) > 1
       /\ DeclaresURL(j, e) /\ HasScheme(Declared(j)[e].v)

\* the Info queries of GetAllDeps: those after the first DEPS file is read
ResolverInfos(tr) ==
  LET first == CHOOSE k \in DOMAIN tr :
                 /\ tr[k].k \in {"deps", "nodeps"}
                 /\ \A j \in 1..(k - 1) : tr[j].k \notin {"deps", "nodeps"}
  IN  IF DepsEvents(tr) = <<>> THEN <<>>
      ELSE SelectSeq(SubSeq(tr, first, Len(tr)), LAMBDA e : e.k = "info")

\* the DEPS of solution i gives d as a URL without scheme that begins with
\* "/" (slash = TRUE) or does not (slash = FALSE)
DeclaresRelative(i, d, slash) ==
  /\ DeclaresURL(i, d)
  /\ ~HasScheme(Declared(i)[d].v)
  /\ StartsWithSlash(Declared(i)[d].v) = slash

\* C17: resolution does not succeed when a DEPS entry has a URL without
\* scheme that does not begin with "/"; it fails with "relative DEPS entry
\* must begin with a slash" only then, and no Info query is made for that
\* entry: a solution is queried at most once for each of its entries that
\* begin with "/".
C17_RelativeURLWithoutSlashFails ==
  /\ ResolvedAll =>
       \A i \in DOMAIN Sols : \A d \in Paths : ~DeclaresRelative(i, d, FALSE)
  /\ (ResolverError
      /\ outcome.err = "relative DEPS entry must begin with a slash") =>
       /\ \E i \in DOMAIN Sols : \E d \in Paths : DeclaresRelative(i, d, FALSE)
       /\ \A i \in DOMAIN Sols :
            Len(SelectSeq(ResolverInfos(trace),
                          LAMBDA e : e.p = Sols[i].name))
              <= Cardinality({d \in Paths : DeclaresRelative(i, d, TRUE)})

C17_Witness ==
  /\ ResolverError
  /\ outcome.err = "relative DEPS entry must begin with a slash"
  /\ Len(Sols) = MaxSolutions
  /\ Len(ResolverInfos(trace)) > 0

\* the revision the option --revision asks for the solution name: None if
\* the option is not given or names another solution
AskedRevision(name) ==
  IF options.revision = None THEN None
  ELSE IF Len(options.revision) = 1 THEN options.revision
  ELSE IF options.revision[1] = name THEN <<options.revision[3]>>
  ELSE None

\* a URL without its "@revision"
Unversioned(url) == Split(url)[1]

\* the URL a dependency d of the resolved map stands for: the URL itself, or
\* for From(module) what the DEPS of the module gives for d
DepTarget(d) ==
  IF deps[d].kind = "str" THEN deps[d].v
  ELSE GetDefaultSolutionDeps(files, wc, deps[d].v[1], platform).deps[d].v

\* C18: in a sync with --revision REV every solution is handed to UpdateToURL
\* as url@REV, whatever revision its URL declares; with SOLUTION@REV the
\* solution of that name is, and every other solution as declared; without
\* the option so are all.  A dependency is handed over with the URL its DEPS
\* (or custom_deps) entry gives, whatever the option.
C18_RevisionPinsSolutionsOnly ==
  command = "sync" =>
    \A k \in DOMAIN Calls(trace) :
      IF k <= Len(Sols)
      THEN /\ Calls(trace)[k].p = Sols[k].name
           /\ Calls(trace)[k].c[1] =
                IF AskedRevision(Sols[k].name) = None THEN Sols[k].url
                ELSE Unversioned(Sols[k].url) \o <<"@">>
                       \o AskedRevision(Sols[k].name)
      ELSE LET d == Calls(trace)[k].p
           IN  /\ d \in DOMAIN deps
               /\ Calls(trace)[k].c[1] = DepTarget(d)
               /\ \E i \in DOMAIN Sols :
                    Contributes(i, d) /\ SameValue(deps[d], Contribution(i, d))

C18_Witness ==
  /\ SyncReturned
  /\ Len(options.revision) = 3
  /\ \E i, j \in DOMAIN Sols :
       /\ AskedRevision(Sols[i].name) # None
       /\ Len(Split(Sols[i].url)) > 1
       /\ Split(Sols[i].url)[2] # AskedRevision(Sols[i].name)
       /\ AskedRevision(Sols[j].name) = None
  /\ \E k \in DOMAIN DepCalls(trace) :
       /\ HasRevision(DepCalls(trace)[k])
       /\ deps[DepCalls(trace)[k].p].kind = "from"

\* the relpaths handed to UpdateToURL in the invocation
PlanPaths == {Calls(trace)[k].p : k \in DOMAIN Calls(trace)}

\* the relpaths of the journal the sync started with that are not in its
\* plan and whose directory is there
Orphaned ==
  {e \in ReadClientEntriesFile(prev.journal) :
     e \notin PlanPaths /\ wc[e].exists}

\* C19: the journal a sync writes has the relpaths of its plan and every
\* relpath of the previous journal that is not in the plan and whose
\* directory is there, and nothing else; the orphan warning is given for
\* exactly the latter; a relpath of the previous journal whose directory is
\* gone is neither kept nor warned about.
C19_JournalPlanAndOrphans ==
  SyncReturned =>
    /\ journal.present
    /\ journal.entries = PlanPaths \cup Orphaned
    /\ Warned(trace) = Orphaned

C19_Witness ==
  /\ SyncReturned
  /\ PlanPaths # {}
  /\ Orphaned # {}
  /\ \E e \in ReadClientEntriesFile(prev.journal) :
       e \notin PlanPaths /\ ~wc[e].exists /\ e \notin journal.entries

\* the relpaths the previous sync handed to UpdateToURL
PrevPlanPaths == {prev.calls[k].p : k \in DOMAIN prev.calls}

\* the invocation before this one was a sync that returned
AfterReturnedSync == prev.command = "sync" /\ prev.outcome.status = "returned"

\* C20: from one returned sync to the next: a relpath that was in the plan or
\* was warned about and is not in the plan now is warned about and kept in
\* the journal if its directory is there, and is neither if the directory is
\* gone; a relpath that was neither in the plan nor warned about, and is not
\* in the plan now, is not warned about and not in the journal.
C20_WarningRepeatsUntilRemoved ==
  (SyncReturned /\ AfterReturnedSync) =>
    \A e \in Paths \ PlanPaths :
      IF e \in PrevPlanPaths \cup prev.orphans
      THEN IF wc[e].exists
           THEN e \in Warned(trace) /\ e \in journal.entries
           ELSE e \notin Warned(trace) /\ e \notin journal.entries
      ELSE e \notin Warned(trace) /\ e \notin journal.entries

C20_Witness ==
  /\ SyncReturned /\ AfterReturnedSync
  /\ \E e \in prev.orphans : e \in Warned(trace)
  /\ \E e \in prev.orphans :
       e \notin PlanPaths /\ ~wc[e].exists /\ e \notin journal.entries
  /\ runs < MaxSyncs

----------------------------------------------------------------------------
(* Platform-specific dependencies and missing DEPS files (SpecDeps) *)

\* the DEPS file of the only solution
TheDepsFile == files[Sols[1].name]

\* the key of deps_os that a host platform stands for
Canon ==
  CASE platform \in {"win32", "win"} -> "win"
    [] platform \in {"darwin", "mac"} -> "mac"
    [] OTHER -> "unix"

\* the base deps and the deps_os of the DEPS file, {} for what it does not bind
BaseDeps == IF "deps" \in TheDepsFile.binds THEN TheDepsFile.deps ELSE EmptyMap
OsDeps(k) ==
  IF "deps_os" \in TheDepsFile.binds /\ k \in DOMAIN TheDepsFile.deps_os
  THEN TheDepsFile.deps_os[k] ELSE EmptyMap

\* GetAllDeps has returned for the only solution
DepsResolved ==
  /\ command = "sync"
  /\ outcome.status # "raised"
  /\ pc \in {"explicit", "inherited", "journal", "idle"}

\* C21: on host platform p the dependencies of a solution are its base deps
\* overridden key by key by deps_os[canon(p)], where canon(p) is win for
\* win32 and win, mac for darwin and mac, and unix for every other string:
\* every relpath of either mapping is a dependency, with the value of
\* deps_os[canon(p)] where that binds it and the value of deps elsewhere.
C21_DepsOverriddenByPlatform ==
  (DepsResolved /\ TheDepsFile.present) =>
    /\ Canon \in {"win", "mac", "unix"}
    /\ DOMAIN deps = DOMAIN BaseDeps \cup DOMAIN OsDeps(Canon)
    /\ \A d \in DOMAIN deps :
         deps[d] = IF d \in DOMAIN OsDeps(Canon) THEN OsDeps(Canon)[d]
                   ELSE BaseDeps[d]

\* on win32 a sync has resolved a DEPS file whose deps_os["win"] overrides
\* an entry of deps and leaves another as it is
C21_Witness ==
  /\ DepsResolved /\ TheDepsFile.present
  /\ pc = "idle"
  /\ platform = "win32"
  /\ \E d \in DOMAIN BaseDeps \cap DOMAIN OsDeps("win") :
       BaseDeps[d] # OsDeps("win")[d] /\ deps[d] = OsDeps("win")[d]
  /\ \E d \in DOMAIN BaseDeps \ DOMAIN OsDeps("win") : deps[d] = BaseDeps[d]

\* the "DEPS file not found" warnings of the invocation
Warnings(tr) == SelectSeq(tr, LAMBDA e : e.k = "nodeps")

\* C22: a solution whose DEPS file is absent is warned about exactly once
\* when it is evaluated, contributes no dependency, and makes nothing fail:
\* an invocation that raises has raised before the evaluation, and a sync
\* that got past it ends by returning 0 with the solution as its only entry.
\* A DEPS file that binds neither deps nor deps_os gives no dependency
\* either, and no warning.
C22_AbsentDepsFileWarnsOnce ==
  /\ (command = "sync" /\ ~TheDepsFile.present) =>
       /\ outcome.status = "raised" => Warnings(trace) = <<>>
       /\ DepsResolved =>
            /\ deps = EmptyMap
            /\ Warnings(trace) = <<Event("nodeps", Sols[1].name, <<>>, 0)>>
            /\ Len(Calls(trace)) = 1
            /\ pc = "idle" => outcome = Returned(0)
  /\ (DepsResolved /\ TheDepsFile.present /\ TheDepsFile.binds = {}) =>
       /\ deps = EmptyMap
       /\ Warnings(trace) = <<>>

\* the second sync of a client whose solution has no DEPS file has returned
C22_Witness ==
  /\ ~TheDepsFile.present
  /\ DepsResolved /\ pc = "idle" /\ outcome = Returned(0)
  /\ runs = 2
  /\ prev.outcome = Returned(0)
  /\ Len(Warnings(trace)) = 1

----------------------------------------------------------------------------
(* A client without solutions (SpecOrphans) *)

\* a sync of a client whose solutions list is empty has ended
EmptySyncEnded == Sols = <<>> /\ command = "sync" /\ Ended

\* C23 as stated: a sync of a client with an empty solutions list resolves
\* to an empty plan, runs no svn command, returns 0 and leaves an empty
\* .gclient_entries.
C23_EmptyClientJournalEmpty ==
  EmptySyncEnded =>
    /\ deps = EmptyMap
    /\ \A i \in DOMAIN trace : trace[i].k \in {"orphan", "journal"}
    /\ outcome = Returned(0)
    /\ journal = [present |-> TRUE, entries |-> {}]

\* C23 (amended): a sync of a client with an empty solutions list resolves
\* to an empty plan, runs no svn command, returns 0 and leaves in
\* .gclient_entries exactly the entries of the previous .gclient_entries
\* whose directories are still there, each warned about; the file is empty
\* when there is no such entry.
C23_EmptyClientJournalKeepsOrphans ==
  EmptySyncEnded =>
    /\ deps = EmptyMap
    /\ \A i \in DOMAIN trace : trace[i].k \in {"orphan", "journal"}
    /\ outcome = Returned(0)
    /\ journal = [present |-> TRUE,
                  entries |-> {e \in prev.journal.entries : wc[e].exists}]
    /\ Warned(trace) = journal.entries

\* the solutions were taken out of .gclient after a sync had checked them
\* out: the sync of the empty client keeps them in .gclient_entries
C23_Witness ==
  /\ EmptySyncEnded
  /\ journal.entries # {}
  /\ outcome = Returned(0)

----------------------------------------------------------------------------
(* Exit status *)

\* C24: an invocation exits with 0 on success, with the exit code of the
\* first failing svn command when one failed, and with 1 when it was ended
\* by a resolver or internal error.
C24_ExitCodePassedThrough ==
  Ended =>
    ExitStatus(outcome) = IF Failed(trace) THEN FirstNonzero(trace)
                          ELSE IF outcome.status = "raised" THEN 1
                          ELSE 0

----------------------------------------------------------------------------
(* status, diff and revert *)

PassThrough == command \in {"status", "diff", "revert"}

\* the svn commands of the invocation, in order
SvnEvents(tr) == SelectSeq(tr, IsSvn)

\* the command line of the verb: revert is always recursive
VerbLine ==
  << <<"svn">>, Str(command) >>
  \o (IF command = "revert" THEN << <<"--recursive">>, <<"*.*">> >> ELSE <<>>)

----------------------------------------------------------------------------
(* config (SpecConfig) *)

\* a spec text, a URL is given
SpecGiven == options.spec # None /\ options.spec # <<>>
URLGiven == options.args # <<>>

\* name is what follows the last "/" of url (all of url if it has none)
IsLastComponent(name, url) ==
  /\ \A i \in DOMAIN name : name[i] # "/"
  /\ Len(name) <= Len(url)
  /\ SubSeq(url, Len(url) - Len(name) + 1, Len(url)) = name
  /\ Len(name) < Len(url) => url[Len(url) - Len(name)] = "/"

Writes(tr) == SelectSeq(tr, LAMBDA e : e.k = "write")

\* C26: config raises an error and leaves the files as they are when the
\* client file exists or when neither a URL nor a spec text is given;
\* otherwise it writes the client file once: the spec text if one is given,
\* else the default text for the URL and the name that is the URL's last
\* path component.
C26_ConfigWritesOnce ==
  [][ command' = "config" =>
        IF client.present \/ (~SpecGiven /\ ~URLGiven)
        THEN /\ outcome'.status = "raised"
             /\ client' = client
             /\ Writes(trace') = Writes(trace)
        ELSE /\ outcome' = Returned(0)
             /\ Len(Writes(trace')) = Len(Writes(trace)) + 1
             /\ client'.present
             /\ IF SpecGiven THEN client'.source = options.spec
                ELSE \E n \in 0..Len(options.args[1]) :
                       LET url  == options.args[1]
                           name == SubSeq(url, Len(url) - n + 1, Len(url))
                       IN  /\ IsLastComponent(name, url)
                           /\ client'.source = DefaultClientFileText(name, url)
    ]_vars

\* config has written the client file for a URL with several components
C26_Witness ==
  /\ command = "config"
  /\ outcome = Returned(0)
  /\ ~SpecGiven
  /\ Len(Writes(trace)) = 1
  /\ client.source = DefaultClientFileText(<<"s2">>, options.args[1])

----------------------------------------------------------------------------
(* RunSVN *)

\* C27: every svn command that is run was written to the log, with the
\* directory it runs in, right before it was started; a command that exits
\* with 0 lets the invocation go on with 0 as its value, and a command that
\* exits nonzero ends the invocation at once with the error "failed to run
\* command", which is raised for no other reason.
C27_EchoRunReport ==
  /\ \A i \in DOMAIN trace :
       IsSvn(trace[i]) =>
         /\ i > 1
         /\ trace[i - 1] = Event("echo", trace[i].p, trace[i].c, 0)
         /\ trace[i].rv # 0 =>
              (i = Len(trace) /\ outcome = Raised("failed to run command"))
  /\ outcome.err = "failed to run command" =>
       (trace # <<>> /\ IsSvn(trace[Len(trace)]) /\ trace[Len(trace)].rv # 0)
  /\ result = 0

\* an svn command has exited with 0 and a later one of the same invocation
\* with 3
C27_Witness ==
  /\ outcome = Raised("failed to run command")
  /\ \E i \in DOMAIN trace : IsSvn(trace[i]) /\ trace[i].rv = 0
  /\ trace[Len(trace)].rv = 3

----------------------------------------------------------------------------
(* UpdateToURL: which svn command is run *)

\* the calls of update_to_url in the trace
CallsAt(tr) == {i \in DOMAIN tr : tr[i].k = "call"}

\* the working copy of call e has a URL other than the target's, in a
\* repository with another root
OtherRoot(e) ==
  /\ e.w.info.URL # Split(e.c[1])[1]
  /\ e.w.info.Root # None /\ e.w.info.Root # <<>>
  /\ e.w.info.Root # InfoOfURL(e.c[1]).Root

OtherUUID(e) == e.w.info.UUID # InfoOfURL(e.c[1]).UUID

\* call e is for a directory that svn info knows the URL of
HasWorkingCopy(e) == e.w.exists /\ ~e.w.git /\ e.w.info.URL # None

\* the relocation guard leaves the entry alone
Guarded(e) == OtherRoot(e) /\ (OtherUUID(e) \/ ~options.relocate)

\* the URL of the working copy when the command is selected: that of svn
\* info, with the new repository root after a relocation
URLAtSelection(e) ==
  IF OtherRoot(e)
  THEN Replace(e.w.info.URL, e.w.info.Root, InfoOfURL(e.c[1]).Root)
  ELSE e.w.info.URL

\* the svn commands of ops, and those other than switch --relocate
SvnOps(ops) == SelectSeq(ops, IsSvn)
FinalOps(ops) == SelectSeq(ops, LAMBDA o : IsSvn(o) /\ ~IsRelocate(o))

\* call e gets as far as selecting a command: a working copy, not guarded,
\* relocated without failure where that was due
Selects(e, ops) ==
  /\ HasWorkingCopy(e)
  /\ ~Guarded(e)
  /\ \A k \in DOMAIN ops : IsRelocate(ops[k]) => ops[k].rv = 0

\* the working copy is at the revision asked for and --force is not given
NoOpRule(e) ==
  /\ ~options.force
  /\ HasRevision(e)
  /\ Split(e.c[1])[2] = e.w.info.Revision

\* "-r rev" if the target URL has a revision
RevisionArgs(e) ==
  IF HasRevision(e) THEN << <<"-r">>, Split(e.c[1])[2] >> ELSE <<>>

\* C28: the command UpdateToURL selects.  A directory that is not there is
\* checked out from url[@rev] by one command, without any svn info.  For a
\* working copy whose URL is the target URL, unless it is at the target
\* revision without --force, one svn update is run inside the working copy,
\* with "-r rev" iff the target has a revision.  For a working copy whose
\* URL is another one, one svn switch to the target URL is run, with
\* "-r rev" iff the target has a revision.
C28_OperationSelection ==
  command = "sync" =>
    \A i \in CallsAt(trace) :
      LET e   == trace[i]
          ops == OpsOf(trace, i)
          fin == FinalOps(ops)
      IN  /\ ~e.w.exists =>
               /\ Len(ops) = 2
               /\ ops[1].k = "echo" /\ ops[2].k = "svn"
               /\ ops[2].c = << <<"svn">>, <<"checkout">>, e.c[1], Str(e.p) >>
               /\ ops[2].p = "."
          /\ (Selects(e, ops) /\ URLAtSelection(e) = Split(e.c[1])[1]
                /\ ~NoOpRule(e)) =>
               /\ Len(fin) = 1
               /\ fin[1].c = << <<"svn">>, <<"update">> >> \o RevisionArgs(e)
               /\ fin[1].p = e.p
          /\ (Selects(e, ops) /\ URLAtSelection(e) # Split(e.c[1])[1]) =>
               /\ Len(fin) = 1
               /\ fin[1].c = << <<"svn">>, <<"switch">> >> \o RevisionArgs(e)
                             \o <<Split(e.c[1])[1], Str(e.p)>>
               /\ fin[1].p = "."

\* a sync has switched a working copy to another URL and checked out a
\* directory that was not there, and the next sync updates a working copy
C28_Witness ==
  /\ command = "sync"
  /\ prev.command = "sync" /\ prev.outcome.status = "returned"
  /\ \E i, k \in DOMAIN prev.calls :
       /\ HasWorkingCopy(prev.calls[i])
       /\ ~OtherRoot(prev.calls[i])
       /\ prev.calls[i].w.info.URL # Split(prev.calls[i].c[1])[1]
       /\ ~prev.calls[k].w.exists
  /\ \E j \in CallsAt(trace) :
       /\ HasWorkingCopy(trace[j])
       /\ FinalOps(OpsOf(trace, j)) # <<>>
       /\ FinalOps(OpsOf(trace, j))[1].c[2] = <<"update">>

----------------------------------------------------------------------------
(* --force *)

\* with --force, call e finds its working copy at the URL and the revision
\* asked for
ForcedUpToDate(e) ==
  /\ options.force
  /\ HasWorkingCopy(e)
  /\ UpToDate(e)

\* C29: with --force a working copy that is at the target URL and the
\* target revision gets one svn update to that revision all the same, and
\* the exit code of that update is what the call returns: a nonzero code
\* comes back to the sync, which records it.
C29_ForcedUpdateReturnsExitCode ==
  command = "sync" =>
    \A i \in CallsAt(trace) :
      ForcedUpToDate(trace[i]) =>
        LET fin == FinalOps(OpsOf(trace, i))
        IN  /\ Len(fin) = 1
            /\ fin[1].c = << <<"svn">>, <<"update">> >> \o RevisionArgs(trace[i])
            /\ fin[1].p = trace[i].p
            /\ fin[1].rv # 0 => (outcome.status # "raised" /\ result = fin[1].rv)

----------------------------------------------------------------------------
(* The relocation guard *)

\* the index of the last call of update_to_url
LastCall(tr) == CHOOSE i \in CallsAt(tr) : \A j \in CallsAt(tr) : j <= i

\* C30: a working copy whose URL is not the target URL and whose repository
\* root is not the target's is left alone, no svn command being run for
\* it and the call counting as a success, when the repository UUIDs differ
\* (with or without --relocate) and when --relocate is not given.  An
\* svn switch --relocate is run only for a working copy with another URL
\* and another root in the same repository (equal UUIDs), with --relocate
\* given.
C30_RelocationGuard ==
  command = "sync" =>
    \A i \in CallsAt(trace) :
      LET e   == trace[i]
          ops == OpsOf(trace, i)
      IN  /\ (HasWorkingCopy(e) /\ Guarded(e)) =>
               /\ SvnOps(ops) = <<>>
               /\ e.p \in DOMAIN entries
               /\ (i = LastCall(trace) /\ outcome.status = "raised") =>
                    outcome.err \notin {"failed to run command",
                                        "Couldn't get URL for relative path",
                                        "can not relocate to URL with different UUID",
                                        "use the --relocate option to switch"}
          /\ (\E k \in DOMAIN ops : IsRelocate(ops[k])) =>
               /\ HasWorkingCopy(e)
               /\ OtherRoot(e)
               /\ ~OtherUUID(e)
               /\ options.relocate

\* with --relocate given a sync has returned 0 after leaving alone a
\* working copy that belongs to another repository
C30_Witness ==
  /\ command = "sync"
  /\ Ended /\ outcome = Returned(0)
  /\ options.relocate
  /\ \E i \in CallsAt(trace) :
       /\ HasWorkingCopy(trace[i])
       /\ OtherRoot(trace[i]) /\ OtherUUID(trace[i])
       /\ SvnOps(OpsOf(trace, i)) = <<>>

----------------------------------------------------------------------------
(* Relocation *)

\* call e is for a working copy that may be relocated: another URL, another
\* root, the same repository, --relocate given
Relocatable(e) ==
  /\ HasWorkingCopy(e)
  /\ OtherRoot(e)
  /\ ~OtherUUID(e)
  /\ options.relocate

\* the URL of the working copy with the old root replaced by the new one
Rewritten(e) == InfoOfURL(e.c[1]).Root \o Tail(e.w.info.URL)

\* the events of run_svn(c, dir) exiting with rv
Ran(c, dir, rv) ==
  <<Event("echo", dir, << <<"svn">> >> \o c, 0),
    Event("svn", dir, << <<"svn">> >> \o c, rv)>>

\* svn info relpath, svn info target, svn switch --relocate
RelocationOps(e, rv) ==
  <<Event("info", e.p, <<Str(e.p)>>, 0), Event("info", e.p, <<e.c[1]>>, 0)>>
  \o Ran(<< <<"switch">>, <<"--relocate">>, e.w.info.Root,
            InfoOfURL(e.c[1]).Root, Str(e.p) >>, ".", rv)

UpdateCommand(e) == << <<"update">> >> \o RevisionArgs(e)
SwitchCommand(e) ==
  << <<"switch">> >> \o RevisionArgs(e) \o <<Split(e.c[1])[1], Str(e.p)>>

\* C31 as stated: where a relocation is permitted (and succeeds) the driver
\* is asked for info on relpath, info on the target, the relocate, and then
\* an update to the target revision if the rewritten URL is the target URL,
\* a switch to the target URL otherwise.
C31_RelocateThenUpdateOrSwitch ==
  command = "sync" =>
    \A i \in CallsAt(trace) :
      LET e   == trace[i]
          ops == OpsOf(trace, i)
      IN  (Relocatable(e) /\ Len(ops) >= 4 /\ ops[4].rv = 0) =>
            \E rv \in ExitCodes :
              ops = RelocationOps(e, 0)
                    \o Ran(IF Rewritten(e) = Split(e.c[1])[1]
                           THEN UpdateCommand(e) ELSE SwitchCommand(e),
                           IF Rewritten(e) = Split(e.c[1])[1] THEN e.p ELSE ".",
                           rv)

\* C31 (amended): where a relocation is permitted the driver is asked for
\* info on relpath, info on the target and the relocate.  If the relocate
\* fails nothing follows.  Otherwise, if the rewritten URL is the target
\* URL, an update to the target revision follows unless the working copy
\* is at that revision and --force is not given, in which case nothing
\* follows; if the rewritten URL is another one, a switch to the target URL
\* follows.
C31_RelocateThenSelect ==
  command = "sync" =>
    \A i \in CallsAt(trace) :
      LET e   == trace[i]
          ops == OpsOf(trace, i)
      IN  Relocatable(e) =>
            \/ \E rv \in ExitCodes \ {0} : ops = RelocationOps(e, rv)
            \/ /\ Rewritten(e) = Split(e.c[1])[1]
               /\ NoOpRule(e)
               /\ ops = RelocationOps(e, 0)
            \/ /\ Rewritten(e) = Split(e.c[1])[1]
               /\ ~NoOpRule(e)
               /\ \E rv \in ExitCodes :
                    ops = RelocationOps(e, 0) \o Ran(UpdateCommand(e), e.p, rv)
            \/ /\ Rewritten(e) # Split(e.c[1])[1]
               /\ \E rv \in ExitCodes :
                    ops = RelocationOps(e, 0) \o Ran(SwitchCommand(e), ".", rv)

\* a working copy of the mirror, at the revision asked for, has been
\* relocated and nothing more was done to it
C31_Witness ==
  /\ command = "sync"
  /\ \E i \in CallsAt(trace) :
       /\ Relocatable(trace[i])
       /\ Rewritten(trace[i]) = Split(trace[i].c[1])[1]
       /\ NoOpRule(trace[i])
       /\ OpsOf(trace, i) = RelocationOps(trace[i], 0)

----------------------------------------------------------------------------
(* svn info without a URL *)

\* call e is for a directory, not git's, that svn info gives no URL for
WithoutURL(e) == e.w.exists /\ ~e.w.git /\ e.w.info.URL = None

\* C32: for a directory that is there and for which svn info gives no URL,
\* UpdateToURL asks for the info and nothing else, the sync ends there with
\* the error "Couldn't get URL for relative path", and no later entry is
\* worked on.
C32_NoURLIsFatal ==
  command = "sync" =>
    \A i \in CallsAt(trace) :
      WithoutURL(trace[i]) =>
        /\ i = Len(trace) - 1
        /\ trace[Len(trace)] = Event("info", trace[i].p, <<Str(trace[i].p)>>, 0)
        /\ pc = "idle"
        /\ outcome = Raised("Couldn't get URL for relative path")

\* the sync of a solution with dependencies has ended at the solution's
\* directory, which is no working copy
C32_Witness ==
  /\ command = "sync"
  /\ outcome = Raised("Couldn't get URL for relative path")
  /\ Len(Calls(trace)) = 1
  /\ WithoutURL(Calls(trace)[1])
  /\ files[Sols[1].name].present
  /\ DOMAIN files[Sols[1].name].deps # {}

----------------------------------------------------------------------------
(* Directories under git *)

\* the errors UpdateToURL ends a sync with
UpdateErrors ==
  {"failed to run command", "Couldn't get URL for relative path"}

----------------------------------------------------------------------------
(* From() references (SpecFrom) *)

\* the DEPS of solution i binds d to From(m), m being a solution of the
\* client, and its custom_deps does not bind d
FromASolution(i, d) ==
  /\ d \in DOMAIN Declared(i)
  /\ d \notin DOMAIN Sols[i].custom_deps
  /\ Declared(i)[d].kind = "from"
  /\ \E j \in DOMAIN Sols : Declared(i)[d].v = Str(Sols[j].name)

\* what solution i gives for d apart from such references: its custom value
\* or the value of its DEPS
Gives(i, d) ==
  /\ d \in DOMAIN Declared(i)
  /\ ~CustomNone(i, d)
  /\ ~FromASolution(i, d)

\* C34: a DEPS entry From(m) with m a solution of the client adds nothing
\* to the dependencies: the relpaths of the resolved map are those that
\* some solution gives otherwise, each with such a value; the entry raises
\* no conflict, a conflict being one between two values given otherwise or
\* with a solution; and update_to_url is called for solutions and resolved
\* dependencies only.
C34_FromSolutionLeftOut ==
  /\ ResolvedAll =>
       \A d \in DOMAIN deps :
         \E i \in DOMAIN Sols : Gives(i, d) /\ SameValue(deps[d], Contribution(i, d))
  /\ (ResolverError
        /\ outcome.err = "solutions have conflicting versions of dependency") =>
       \E i, j \in DOMAIN Sols : \E d \in Paths :
         i < j /\ Gives(i, d) /\ Gives(j, d)
  /\ (ResolverError
        /\ outcome.err = "dependency conflicts with specified solution") =>
       \E i, j \in DOMAIN Sols : Gives(i, Sols[j].name)
  /\ command = "sync" =>
       \A k \in CallsAt(trace) :
         \/ \E j \in DOMAIN Sols : trace[k].p = Sols[j].name
         \/ trace[k].p \in DOMAIN deps

\* a sync has returned for two solutions, the DEPS of s2 binding "a" to
\* From("s1") and the DEPS of s1 binding it to From("m"): "a" is what the
\* DEPS of "m" says
C34_Witness ==
  /\ SyncReturned
  /\ Len(Sols) = 2
  /\ \E i \in DOMAIN Sols : FromASolution(i, "a")
  /\ "a" \in DOMAIN deps /\ deps["a"] = From("m")
  /\ "a" \in DOMAIN entries

\* the DEPS of the module that the From() value of the dependency d names,
\* as it is read in the working copy of that module
ModuleDeps(d) ==
  GetDefaultSolutionDeps(files, wc, deps[d].v[1], platform).deps

\* the dependency d is a From() reference and the DEPS of its module binds
\* d to a URL
Inherits(d) ==
  /\ d \in DOMAIN deps
  /\ deps[d].kind = "from"
  /\ d \in DOMAIN ModuleDeps(d)
  /\ ModuleDeps(d)[d].kind = "str"

\* C35: in a sync, a dependency From(m) with m no solution is resolved from
\* the DEPS of m: update_to_url is called for the relpath right after that
\* DEPS was read, with the URL it binds to the same relpath, and a sync that
\* returns has called it and recorded that URL for the relpath.
C35_InheritedFromModuleDeps ==
  command = "sync" =>
    \A d \in Paths : Inherits(d) =>
      /\ \A k \in CallsAt(trace) : trace[k].p = d =>
           /\ trace[k].c = <<ModuleDeps(d)[d].v>>
           /\ k > 1
           /\ trace[k - 1] = Event("deps", deps[d].v[1], <<>>, 0)
      /\ SyncReturned =>
           /\ \E k \in CallsAt(trace) : trace[k].p = d
           /\ d \in DOMAIN entries
           /\ entries[d] = ModuleDeps(d)[d].v

\* a sync has returned where "a" is From("m") and the DEPS of "m" binds "a"
\* to a URL
C35_Witness ==
  /\ SyncReturned
  /\ Inherits("a")
  /\ deps["a"] = From("m")
  /\ entries["a"] = AtRev(U("http://a", "/liba"), "2")

\* the value handed or recorded is a From() object, no URL
IsFromObject(value) == value # <<>> /\ Head(value) = "From"

\* C36: in a sync a dependency From(m) is resolved to a URL or the sync
\* fails: update_to_url is called for it with a URL, or with the call the
\* sync raises; what is recorded for it is a URL; and when the DEPS of m
\* does not bind the relpath the sync raises before any call for it.
C36_FromYieldsURLOrFails ==
  command = "sync" =>
    \A d \in DOMAIN deps : deps[d].kind = "from" =>
      /\ \A k \in CallsAt(trace) :
           (trace[k].p = d /\ IsFromObject(trace[k].c[1])) =>
             /\ k = Len(trace)
             /\ outcome.status = "raised"
      /\ d \in DOMAIN entries => ~IsFromObject(entries[d])
      /\ d \notin DOMAIN ModuleDeps(d) =>
           /\ \A k \in CallsAt(trace) : trace[k].p # d
           /\ ~SyncReturned

\* a sync has returned with a From() object recorded for "a", whose From()
\* chain has two hops and whose directory is under git
C36_ChainUnderGit ==
  /\ SyncReturned
  /\ "a" \in DOMAIN deps /\ deps["a"] = From("m")
  /\ "a" \in DOMAIN entries /\ IsFromObject(entries["a"])
  /\ wc["a"].git

----------------------------------------------------------------------------
(* URLs without a scheme (SpecFrom) *)

\* C37: every URL of the resolved dependencies is absolute, and so is every
\* URL update_to_url is called with in a sync: a value beginning with "/",
\* of a DEPS file or of custom_deps, is not passed on as it is.
C37_ResolvedURLsAbsolute ==
  /\ ResolvedAll =>
       \A d \in DOMAIN deps : deps[d].kind = "str" => HasScheme(deps[d].v)
  /\ command = "sync" =>
       \A k \in CallsAt(trace) :
         IsFromObject(trace[k].c[1]) \/ HasScheme(trace[k].c[1])

\* the custom_deps of no solution has a value without a scheme
CustomAbsolute ==
  \A i \in DOMAIN Sols : \A d \in DOMAIN Sols[i].custom_deps :
    Sols[i].custom_deps[d].kind = "str" => HasScheme(Sols[i].custom_deps[d].v)

\* the same for the values that come from DEPS files alone
C37_DepsURLsAbsolute == CustomAbsolute => C37_ResolvedURLsAbsolute

\* a sync has checked out "a" from the custom_deps value "/liba"
C37_CustomRelativeCheckedOut ==
  /\ SyncReturned
  /\ "a" \in DOMAIN deps /\ deps["a"] = S(<<"/liba">>)
  /\ "a/b" \in DOMAIN deps /\ deps["a/b"] = S(U("http://a", "/libb"))
  /\ \E k \in CallsAt(trace) : trace[k].p = "a" /\ trace[k].c = <<(<<"/liba">>)>>

----------------------------------------------------------------------------
(* The journal of a sync that raises *)

\* the steps of the invocation that read and write .gclient_entries
JournalSteps(tr) == {k \in DOMAIN tr : tr[k].k \in {"orphan", "journal"}}

\* C38: a sync that ends with an exception has not come to the orphan check
\* nor to the writing of .gclient_entries, which is as it was when the sync
\* began.
C38_RaisedSyncLeavesJournal ==
  (command = "sync" /\ outcome.status = "raised") =>
    /\ JournalSteps(trace) = {}
    /\ journal = prev.journal

\* a sync has written .gclient_entries and the next sync has raised on an
\* svn command that failed
C38_Witness ==
  /\ command = "sync" /\ Ended /\ outcome.status = "raised"
  /\ Failed(trace)
  /\ prev.command = "sync" /\ prev.outcome.status = "returned"
  /\ prev.journal.present /\ prev.journal.entries # {}
  /\ journal = prev.journal

----------------------------------------------------------------------------
(* The commands of one call of UpdateToURL (SpecUpdate) *)

\* the positions in ops of the relocations, of the other svn commands and
\* of the svn info queries
RelocatesAt(ops) == {j \in DOMAIN ops : IsRelocate(ops[j])}
CommandsAt(ops) == {j \in DOMAIN ops : IsSvn(ops[j]) /\ ~IsRelocate(ops[j])}
InfosAt(ops) == {j \in DOMAIN ops : ops[j].k = "info"}

\* C39: one call of update_to_url runs at most one svn command other than
\* the relocation, which is a checkout, an update or a switch, and at most
\* one switch --relocate; the relocation comes before the other command,
\* and svn info is not asked after an svn command has run.
C39_OneCommandPerCall ==
  command = "sync" =>
    \A k \in CallsAt(trace) :
      LET ops == OpsOf(trace, k)
      IN  /\ Cardinality(CommandsAt(ops)) <= 1
          /\ \A j \in CommandsAt(ops) :
               ops[j].c[2] \in {<<"checkout">>, <<"update">>, <<"switch">>}
          /\ Cardinality(RelocatesAt(ops)) <= 1
          /\ \A i \in RelocatesAt(ops) : \A j \in CommandsAt(ops) : i < j
          /\ \A i \in InfosAt(ops) :
               \A j \in RelocatesAt(ops) \cup CommandsAt(ops) : i < j

\* a call has asked svn info twice, relocated the working copy and then
\* switched it
C39_Witness ==
  /\ command = "sync"
  /\ \E k \in CallsAt(trace) :
       LET ops == OpsOf(trace, k)
       IN  /\ Cardinality(InfosAt(ops)) = 2
           /\ RelocatesAt(ops) # {}
           /\ \E j \in CommandsAt(ops) : ops[j].c[2] = <<"switch">>
====
